---- MODULE Spec2Model ----
(***************************************************************************)
(* A model of the serializability checker of julesjacobs/ser as seen from  *)
(* the Python harness of the repository.                                   *)
(*                                                                         *)
(*  - The decision engine (per-disjunct state machine, certificate and     *)
(*    trace verification, the result surface) is not among the source      *)
(*    files; it is modelled from spec.md (sections 3 to 7).                *)
(*  - The harness functions (check_proofs.py, find_proof_issues.py,        *)
(*    scripts/analyze_examples.py) are translated from their source.       *)
(*  - The example network systems are the literals of the generators.      *)
(***************************************************************************)
EXTENDS Naturals, Integers, Sequences, FiniteSets, TLC

\* ---------------------------------------------------------------- bounds

\* Number of disjuncts of the analysed network system.
NumDisjuncts == 2

\* Size of the worker pool that evaluates disjuncts.
NumWorkers == 2

VARIABLES
    plan,          \* per disjunct: what the (deterministic) oracle and the
                   \* re-verification will answer for it
    dstate,        \* per disjunct: state of the decision state machine
    trail,         \* per disjunct: the states it went through, in order
    kind,          \* per disjunct: why it is inconclusive (none/timeout/error)
    out,           \* per disjunct: lines printed for it on stdout
    smpt_calls,    \* per disjunct: oracle invocations
    smpt_timeouts, \* per disjunct: oracle timeouts
    smpt,          \* per disjunct: the oracle process of its query
    reduced,       \* per disjunct: its own reduced copy of the net
    invariant,     \* per disjunct: its own semilinear invariant
    result,        \* system-level result ("none" until reported)
    sysout,        \* verdict lines printed on stdout
    stderr,        \* lines printed on stderr
    returncode,    \* exit code of the run
    info,          \* check_proofs.analyze_result of the run
    rsa,           \* scripts/analyze_examples.run_single_analysis of the run
    issue,         \* find_proof_issues.analyze_output of the run
    ns,            \* the network system that is run
    batch,         \* the request instances that run together (names)
    glob,          \* the shared global state
    loc,           \* per request instance: its local state
    resp,          \* per request instance: its response ("none" before)
    rsa_root,      \* analyze_examples.run_single_analysis of the run
    runs,          \* test_determinism: verdict and certificates of each
                   \* finished run of the pipeline
    reports,       \* test_determinism: report_NNN.md of each run (or Missing)
    equivalence_classes, \* test_determinism.main: the classes found
    summary,       \* test_determinism.main: the summary printed
    marking,       \* the marking of the Petri net of ns
    pruning,       \* bidirectional pruning of the Petri net of ns: the net
                   \* so far, the pass that is next, the iterations counted
    opt_run,       \* analyze_examples.analyze_file: how the run with
                   \* optimizations ended (its output and exit code)
    no_opt_run,    \* the same for the run with --without-optimizations
    file_result,   \* analyze_examples.analyze_file: the dictionary returned
    json_files,    \* check_proofs.main: the number of files to test
    json_file,     \* check_proofs.main: the run of the file tested last
    proof_info,    \* check_proofs.main: info of the file tested last
    printed,       \* check_proofs.main: OK or PROBLEMATIC, per file tested
    problematic_files, \* check_proofs.main: the files found problematic
    exit_status,   \* check_proofs: what main returned (to sys.exit)
    report_pair,   \* test_determinism: two reports of run_analysis
    comparison,    \* test_determinism: compare_reports of the two, and
                   \* the classes of find_equivalence_classes
    script,        \* which analyze_examples.py runs the pool of jobs
    files,         \* the sorted list of input files
    futures,       \* the indexes of the jobs that have not completed
    completed,     \* the indexes in the order as_completed yielded them
    results,       \* the results list of main / run_analysis
    pool_report,   \* the report written from the results, and the lists
                   \* of non-validated cases printed with it
    mode,          \* how the request instances of a pattern execute:
                   \* interleaved ("concurrent") or one at a time ("serial")
    turn,          \* serial execution: the instance that is executing
                   \* (0 when none is)
    target_size,   \* exhaustive_gen: the size asked of the generator
    yielded,       \* exhaustive_gen: the parameter tuple and the system
                   \* appended to ns_list last
    bench_summary, \* generate_big_summary_table: the summary loaded from
                   \* the CSV, benchmark -> (res, cert, total)
    tex            \* generate_big_summary_table: the rows of the table
                   \* written, per category

engine_vars == <<plan, dstate, trail, kind, out, smpt_calls, smpt_timeouts,
                 smpt, reduced, invariant, result, sysout, stderr,
                 returncode, info, rsa, issue>>

ns_vars == <<ns, batch, glob, loc, resp>>

tool_vars == <<rsa_root>>

det_vars == <<runs, reports, equivalence_classes, summary>>

net_vars == <<marking>>

prune_vars == <<pruning>>

file_vars == <<opt_run, no_opt_run, file_result>>

\* The state of the reporting scripts that work on finished runs.
proofs_vars ==
    <<json_files, json_file, proof_info, printed, problematic_files,
      exit_status>>

pair_vars == <<report_pair, comparison>>

pool_vars == <<script, files, futures, completed, results, pool_report>>

mode_vars == <<mode, turn>>

\* The state of the generator scripts.
gen_vars == <<target_size, yielded, bench_summary, tex>>

harness_vars ==
    <<file_vars, proofs_vars, pair_vars, pool_vars, mode_vars, gen_vars>>

\* What the steps of the engine (resp. of a run of a network system) leave
\* alone.
not_engine_vars ==
    <<ns_vars, tool_vars, det_vars, net_vars, prune_vars, harness_vars>>

not_ns_vars ==
    <<engine_vars, tool_vars, det_vars, net_vars, prune_vars, harness_vars>>

vars ==
    <<engine_vars, ns_vars, tool_vars, det_vars, net_vars, prune_vars,
      harness_vars>>

Disjuncts == 1..NumDisjuncts

\* ------------------------------------------------- lines of the output
\* [ok] stands for the check-mark emoji, [x] for the cross, [t] for the
\* stopwatch, [v] for the small check mark of the harness's markers.

LineSer == "[ok] RESULT: SERIALIZABLE"
LineSerSentence == "[ok] The network system IS serializable"
LineNotSer == "[x] RESULT: NOT SERIALIZABLE"
LineNotSerSentence == "[x] The network system is NOT serializable"
LineTimeout == "[t] RESULT: TIMEOUT"
LineSmptTimeout == "SMPT verification failed: SMPT timeout: killed"
LineError == "Error: SMPT process failed"
LineCertFound == "[ok] PROOF CERTIFICATE FOUND"
LineCertHeader == "Proof Certificate Verification:"
LineNsInvariants == "NS-Level Invariants:"
LineInitOk == "[v] Initial state satisfies the invariant"
LineInitBad == "Initial state does not satisfy the invariant"
LineInductiveBad == "Invariant is not closed under transition t"
LineImpliesBad == "Invariant for global state G does not imply serializability"
LineOutside == "Values outside serializable set: v"
LineCertValid == "[ok] Proof certificate is VALID"
LineCertInvalid == "[x] Proof certificate is INVALID"
LineTraceFound == "[x] COUNTEREXAMPLE TRACE FOUND"
LineNsTrace == "NS-Level Counterexample Trace:"
LinePairs == "Completed Request/Response Pairs:"
LineTraceValid == "[ok] Trace is valid!"
LineTraceInvalid == "[x] Trace is INVALID!"
LineOrigSer == "Original method: Serializable"
LineOrigNotSer == "Original method: Not serializable"
LineProofProof == "Proof-based method: Proof"
LineProofCex == "Proof-based method: CounterExample"
LineAnalysisTimedOut == "Analysis timed out"
LineSmptFailedRun == "Failed to run SMPT: SMPT timeout: killed"
LineTooLarge == "Number of components in semilinear set is too large"
LinePanic == "thread 'main' panicked at src/main.rs:1:1"
LinePanicVariable == "Variable not found in mapping"
LineParseError == "Failed to parse proof certificate: ParseError { message: \"m\" }"
LineExceptionTimeout == "TIMEOUT"
LineParseFailed == "Failed to parse proof certificate"
LinePanicked == "thread 'main' panicked"
LineExceptionError == "ERROR: [Errno 2] No such file or directory: 'cargo'"

\* Python's `needle in text` for a text made of the lines above: the pairs
\* <<needle, line>> where the needle is a proper substring of the line.
ProperSubstrings ==
    { <<"SMPT timeout:", LineSmptTimeout>>,
      <<"TIMEOUT", LineTimeout>>,
      <<"ERROR", LineExceptionError>>,
      <<"Invariant for global state", LineImpliesBad>>,
      <<"does not imply serializability", LineImpliesBad>>,
      <<"Values outside serializable set: ", LineOutside>>,
      <<"Proof certificate is INVALID", LineCertInvalid>>,
      <<"SERIALIZABLE", LineSer>>,
      <<"SERIALIZABLE", LineNotSer>>,
      <<"NOT SERIALIZABLE", LineNotSer>>,
      <<"serializable", LineSerSentence>>,
      <<"serializable", LineNotSerSentence>>,
      <<"serializable", LineOutside>>,
      <<"serializable", LineOrigNotSer>>,
      <<"SMPT timeout:", LineSmptFailedRun>>,
      <<"Failed to run SMPT: SMPT timeout:", LineSmptFailedRun>>,
      <<"SMPT verification failed: SMPT timeout:", LineSmptTimeout>>,
      <<"thread 'main' panicked", LinePanic>>,
      <<"panicked at ", LinePanic>>,
      <<"Failed to parse proof certificate", LineParseError>>,
      <<"ParseError { message: \"", LineParseError>> }

Occurs(needle, text) ==
    \E line \in text : needle = line \/ <<needle, line>> \in ProperSubstrings

\* ------------------------------------------------- the decision engine

OracleAnswers == {"FALSE", "TRUE", "timeout", "failure"}

\* What the oracle process may have printed when it is killed at the
\* wall-clock timeout: nothing yet, or already a verdict line.
PartialOutputs == {"", "FALSE", "TRUE"}

\* What is fixed for one disjunct before it is evaluated: how the oracle
\* invocation ends (oracle), what the process printed until then (printed)
\* and, on the proof (resp. disproof) path, the outcome of each re-verified
\* check of the certificate (resp. trace).
Plans ==
    { [oracle |-> "FALSE", printed |-> "FALSE", initial_state_ok |-> a,
       inductive_ok |-> b, implies_serializable_ok |-> c,
       replay_ok |-> TRUE, nonserial_ok |-> TRUE] :
          a \in BOOLEAN, b \in BOOLEAN, c \in BOOLEAN }
    \cup
    { [oracle |-> "TRUE", printed |-> "TRUE", initial_state_ok |-> TRUE,
       inductive_ok |-> TRUE, implies_serializable_ok |-> TRUE,
       replay_ok |-> a, nonserial_ok |-> b] : a \in BOOLEAN, b \in BOOLEAN }
    \cup
    { [oracle |-> "timeout", printed |-> o, initial_state_ok |-> TRUE,
       inductive_ok |-> TRUE, implies_serializable_ok |-> TRUE,
       replay_ok |-> TRUE, nonserial_ok |-> TRUE] : o \in PartialOutputs }
    \cup
    { [oracle |-> "failure", printed |-> "", initial_state_ok |-> TRUE,
       inductive_ok |-> TRUE, implies_serializable_ok |-> TRUE,
       replay_ok |-> TRUE, nonserial_ok |-> TRUE] }

DStates == {"Init", "Reducing", "BuildingInvariant", "QueryingOracle",
            "ProofPath", "DisproofPath", "Timeout", "Verified",
            "Inconclusive"}

Terminal(d) == dstate[d] \in {"Verified", "Inconclusive"}

Running(d) == dstate[d] \notin {"Init", "Verified", "Inconclusive"}

\* The path a disjunct took after the oracle answered ("none" before).
Path(d) == IF Len(trail[d]) >= 5 THEN trail[d][5] ELSE "none"

ProofVerified(d) == dstate[d] = "Verified" /\ Path(d) = "ProofPath"

DisproofVerified(d) == dstate[d] = "Verified" /\ Path(d) = "DisproofPath"

\* ProofCertificate: valid only if all three derived checks hold.
CertificateValid(p) ==
    p.initial_state_ok /\ p.inductive_ok /\ p.implies_serializable_ok

\* CounterexampleTrace: valid only if the replay is legal and the completed
\* pairs are not producible serially.
TraceValid(p) == p.replay_ok /\ p.nonserial_ok

Goto(d, s) ==
    /\ dstate' = [dstate EXCEPT ![d] = s]
    /\ trail' = [trail EXCEPT ![d] = Append(@, s)]

\* A free worker picks up a disjunct: Init -> Reducing.
StartReducing(d) ==
    /\ result = "none"
    /\ dstate[d] = "Init"
    /\ Cardinality({e \in Disjuncts : Running(e)}) < NumWorkers
    /\ Goto(d, "Reducing")
    /\ UNCHANGED <<plan, smpt, reduced, invariant,
                   kind, out, smpt_calls, smpt_timeouts, result,
                   sysout, stderr, returncode, info, rsa, issue>>
    /\ UNCHANGED not_engine_vars

\* Reducing -> BuildingInvariant.
BuildInvariant(d) ==
    /\ result = "none"
    /\ dstate[d] = "Reducing"
    /\ Goto(d, "BuildingInvariant")
    /\ reduced' = [reduced EXCEPT ![d] = "reduced"]
    /\ UNCHANGED <<plan, smpt, invariant,
                   kind, out, smpt_calls, smpt_timeouts, result,
                   sysout, stderr, returncode, info, rsa, issue>>
    /\ UNCHANGED not_engine_vars

\* BuildingInvariant -> QueryingOracle: the oracle is invoked once.
QueryOracle(d) ==
    /\ result = "none"
    /\ dstate[d] = "BuildingInvariant"
    /\ Goto(d, "QueryingOracle")
    /\ invariant' = [invariant EXCEPT ![d] = "built"]
    /\ smpt_calls' = [smpt_calls EXCEPT ![d] = @ + 1]
    /\ smpt' = [smpt EXCEPT ![d] = "running"]
    /\ UNCHANGED <<plan, reduced,
                   kind, out, smpt_timeouts, result,
                   sysout, stderr, returncode, info, rsa, issue>>
    /\ UNCHANGED not_engine_vars

\* A slip: whatever verdict line the process printed is parsed, also when
\* the process was killed at the timeout.
ParsedVerdict_of_partial_output(p) ==
    IF p.printed \in {"FALSE", "TRUE"} THEN p.printed ELSE p.oracle

\* The verdict parsed from an oracle invocation: the printed FALSE or TRUE
\* of a process that ended by itself; the output of a process killed at the
\* timeout is discarded.
ParsedVerdict(p) ==
    IF p.oracle \in {"timeout", "failure"} THEN p.oracle ELSE p.printed

\* How the oracle process of an invocation ends.
ProcessEnd(p) ==
    CASE p.oracle = "timeout" -> "killed"
      [] p.oracle = "failure" -> "crashed"
      [] OTHER -> "exited"

\* The state entered when the oracle answers.
OracleBranch(answer) ==
    CASE answer = "FALSE" -> "ProofPath"
      [] answer = "TRUE" -> "DisproofPath"
      [] OTHER -> "Timeout"

\* A slip: a failure is recorded against every disjunct.
Record_against_all(d, k) == [e \in Disjuncts |-> k]

\* A failure (timeout or error) is recorded against the disjunct that
\* raised it.
Record(d, k) == [kind EXCEPT ![d] = k]

\* The oracle's verdict is parsed: FALSE/unreachable supports the invariant,
\* TRUE/reachable carries a witness, a timeout or a process failure gives
\* no answer (no retry).
OracleReturns(d) ==
    /\ result = "none"
    /\ dstate[d] = "QueryingOracle"
    /\ smpt' = [smpt EXCEPT ![d] = ProcessEnd(plan[d])]
    /\ Goto(d, OracleBranch(ParsedVerdict(plan[d])))
    /\ kind' = CASE plan[d].oracle = "timeout" -> Record(d, "timeout")
                 [] plan[d].oracle = "failure" -> Record(d, "error")
                 [] OTHER -> kind
    /\ smpt_timeouts' = [smpt_timeouts EXCEPT ![d] =
                   IF plan[d].oracle = "timeout" THEN @ + 1 ELSE @]
    /\ out' = [out EXCEPT ![d] =
                   CASE ParsedVerdict(plan[d]) = "FALSE" ->
                            @ \cup {LineCertFound}
                     [] ParsedVerdict(plan[d]) = "TRUE" ->
                            @ \cup {LineTraceFound}
                     [] OTHER -> @]
    /\ UNCHANGED <<plan, reduced, invariant,
                   smpt_calls, result, sysout, stderr, returncode,
                   info, rsa, issue>>
    /\ UNCHANGED not_engine_vars

\* The lines of the independent re-verification of a proof certificate.
CertificateLines(p) ==
    {LineCertHeader, LineNsInvariants}
    \cup (IF p.initial_state_ok THEN {LineInitOk} ELSE {LineInitBad})
    \cup (IF p.inductive_ok THEN {} ELSE {LineInductiveBad})
    \cup (IF p.implies_serializable_ok THEN {}
          ELSE {LineImpliesBad, LineOutside})
    \cup (IF CertificateValid(p) THEN {LineCertValid} ELSE {LineCertInvalid})

\* The state a disjunct ends in after its certificate was re-verified.
AfterCertificate(p) ==
    IF CertificateValid(p) THEN "Verified" ELSE "Inconclusive"

\* ProofPath -> Verified | Inconclusive.
VerifyCertificate(d) ==
    /\ result = "none"
    /\ dstate[d] = "ProofPath"
    /\ Goto(d, AfterCertificate(plan[d]))
    /\ out' = [out EXCEPT ![d] = @ \cup CertificateLines(plan[d])]
    /\ kind' = IF CertificateValid(plan[d]) THEN kind
               ELSE Record(d, "error")
    /\ UNCHANGED <<plan, smpt, reduced, invariant,
                   smpt_calls, smpt_timeouts, result, sysout, stderr,
                   returncode, info, rsa, issue>>
    /\ UNCHANGED not_engine_vars

\* The lines of the replay of a counterexample trace.
TraceLines(p) ==
    {LineNsTrace, LinePairs}
    \cup (IF TraceValid(p) THEN {LineTraceValid} ELSE {LineTraceInvalid})

\* The state a disjunct ends in after its trace was replayed.
AfterTrace(p) == IF TraceValid(p) THEN "Verified" ELSE "Inconclusive"

\* DisproofPath -> Verified | Inconclusive.
VerifyTrace(d) ==
    /\ result = "none"
    /\ dstate[d] = "DisproofPath"
    /\ Goto(d, AfterTrace(plan[d]))
    /\ out' = [out EXCEPT ![d] = @ \cup TraceLines(plan[d])]
    /\ kind' = IF TraceValid(plan[d]) THEN kind ELSE Record(d, "error")
    /\ UNCHANGED <<plan, smpt, reduced, invariant,
                   smpt_calls, smpt_timeouts, result, sysout, stderr,
                   returncode, info, rsa, issue>>
    /\ UNCHANGED not_engine_vars

\* A slip: a disjunct without an oracle answer is taken for settled.
AfterTimeout_verified == "Verified"

\* The state a disjunct without an oracle answer ends in.
AfterTimeout == "Inconclusive"

\* Timeout -> Inconclusive.
GiveUp(d) ==
    /\ result = "none"
    /\ dstate[d] = "Timeout"
    /\ Goto(d, AfterTimeout)
    /\ UNCHANGED <<plan, smpt, reduced, invariant,
                   kind, out, smpt_calls, smpt_timeouts, result,
                   sysout, stderr, returncode, info, rsa, issue>>
    /\ UNCHANGED not_engine_vars

\* A slip: the result is reported as soon as one disjunct has ended.
MayReport_first_ended == \E d \in Disjuncts : Terminal(d)

\* When the system-level result may be reported: every disjunct has ended,
\* or one disjunct is verified via the disproof path (short-circuit).
MayReport ==
    \/ \A d \in Disjuncts : Terminal(d)
    \/ \E d \in Disjuncts : DisproofVerified(d)

\* The system-level result.
SystemResult ==
    IF \E d \in Disjuncts : DisproofVerified(d) THEN "NotSerializable"
    ELSE IF \A d \in Disjuncts : ProofVerified(d) THEN "Serializable"
    ELSE IF \E d \in Disjuncts : kind[d] = "error" THEN "Error"
    ELSE "Timeout"

\* The result surface: <<stdout verdict lines, stderr lines, exit code>>.
\* A timeout is reported either as a result line (exit code 0) or as a
\* failed run whose message carries the timeout marker.
Surface(r) ==
    CASE r = "Serializable" -> {<<{LineSer, LineSerSentence}, {}, 0>>}
      [] r = "NotSerializable" ->
            {<<{LineNotSer, LineNotSerSentence}, {}, 0>>}
      [] r = "Timeout" -> {<<{LineTimeout}, {}, 0>>,
                           <<{}, {LineSmptTimeout}, 1>>}
      [] OTHER -> {<<{}, {LineError}, 1>>}

Report ==
    /\ result = "none"
    /\ MayReport
    /\ result' = SystemResult
    /\ \E s \in Surface(SystemResult) :
          /\ sysout' = s[1]
          /\ stderr' = s[2]
          /\ returncode' = s[3]
    /\ UNCHANGED <<plan, smpt, reduced, invariant,
                   dstate, trail, kind, out, smpt_calls, smpt_timeouts,
                   info, rsa, issue>>
    /\ UNCHANGED not_engine_vars

\* Everything the run printed on stdout.
Stdout == sysout \cup UNION {out[d] : d \in Disjuncts}

\* ------------------------------------------------------- the harness

\* Python's None, True and False (one sort, so that a field may hold any of
\* them), and a key that the dictionary does not hold.
None == "None"
PyTrue == "True"
PyFalse == "False"
Absent == "absent"

Py(b) == IF b THEN PyTrue ELSE PyFalse

\* A slip: a verification section is taken for a valid certificate.
check_proof_validity_by_header(stdout) ==
    IF Occurs(LineCertValid, stdout) \/ Occurs(LineCertHeader, stdout)
    THEN <<PyTrue, "valid">>
    ELSE IF Occurs(LineCertInvalid, stdout) THEN <<PyFalse, "invalid">>
    ELSE <<None, "no_verification">>

\* check_proofs.check_proof_validity: <<proof_valid, proof_status>>.
check_proof_validity(stdout) ==
    IF Occurs(LineCertValid, stdout) THEN <<PyTrue, "valid">>
    ELSE IF Occurs(LineCertInvalid, stdout) THEN <<PyFalse, "invalid">>
    ELSE IF Occurs(LineCertHeader, stdout) THEN <<PyFalse, "unclear">>
    ELSE <<None, "no_verification">>

\* The info dictionary of check_proofs.analyze_result before it is filled.
EmptyInfo ==
    [status |-> Absent, result |-> Absent, proof_valid |-> Absent,
     proof_status |-> Absent, has_ns_invariants |-> Absent,
     initial_state_check |-> Absent, has_ns_trace |-> Absent,
     has_completed_pairs |-> Absent]

\* A slip: the verdict is looked up by the word alone, which both verdict
\* sentences contain.
serializability_result_by_word(stdout) ==
    IF Occurs("serializable", stdout) THEN "serializable"
    ELSE IF Occurs(LineNotSerSentence, stdout) THEN "not_serializable"
    ELSE "unknown"

\* check_proofs.analyze_result, "Determine if serializable or not".
serializability_result(stdout) ==
    IF Occurs(LineSerSentence, stdout) THEN "serializable"
    ELSE IF Occurs(LineNotSerSentence, stdout) THEN "not_serializable"
    ELSE "unknown"

\* check_proofs.analyze_result.
analyze_result(stdout, errtext, rc) ==
    IF rc # 0 \/ Occurs("ERROR", errtext) \/ Occurs("TIMEOUT", errtext)
    THEN [EmptyInfo EXCEPT !.status = "error"]
    ELSE
      LET res == serializability_result(stdout)
          base == [EmptyInfo EXCEPT !.status = "success", !.result = res]
      IN  IF res = "serializable"
          THEN [base EXCEPT
                  !.proof_valid = check_proof_validity(stdout)[1],
                  !.proof_status = check_proof_validity(stdout)[2],
                  !.has_ns_invariants = Py(Occurs(LineNsInvariants, stdout)),
                  !.initial_state_check = Py(Occurs(LineInitOk, stdout))]
          ELSE IF res = "not_serializable"
          THEN [base EXCEPT
                  !.has_ns_trace = Py(Occurs(LineNsTrace, stdout)),
                  !.has_completed_pairs = Py(Occurs(LinePairs, stdout))]
          ELSE base

\* A slip: the oracle's own timeout message is not among the markers.
timeout_flag_without_smpt(text) ==
    \/ Occurs("Analysis timed out", text)
    \/ Occurs(LineTimeout, text)
    \/ Occurs(LineTooLarge, text)

\* scripts/analyze_examples.run_single_analysis, from the point where the
\* process has ended: `text` is stdout + stderr.
timeout_flag(text) ==
    \/ Occurs("SMPT timeout:", text)
    \/ Occurs("Analysis timed out", text)
    \/ Occurs(LineTimeout, text)
    \/ Occurs(LineTooLarge, text)

\* A slip: the verdict is looked up by the word alone, which the
\* not-serializable result line contains too.
verdict_of_by_word(text) ==
    IF Occurs("SERIALIZABLE", text) THEN "Serializable"
    ELSE IF Occurs(LineNotSer, text) THEN "Not serializable"
    ELSE IF Occurs(LineTimeout, text) THEN "SMPT Timeout"
    ELSE "Unknown"

\* The verdict of a run that exited with code 0, from its result line.
verdict_of(text) ==
    IF Occurs(LineSer, text) THEN "Serializable"
    ELSE IF Occurs(LineNotSer, text) THEN "Not serializable"
    ELSE IF Occurs(LineTimeout, text) THEN "SMPT Timeout"
    ELSE "Unknown"

\* A slip: the header of the trace section is looked up before the
\* replay's own verdict lines.
trace_validity_header_first(text) ==
    IF Occurs(LineTraceFound, text) THEN PyTrue
    ELSE IF Occurs(LineTraceValid, text) THEN PyTrue
    ELSE IF Occurs(LineTraceInvalid, text) THEN PyFalse
    ELSE None

\* trace_valid as read from the output of a Not serializable run.
trace_validity(text) ==
    IF Occurs(LineTraceValid, text) THEN PyTrue
    ELSE IF Occurs(LineTraceInvalid, text) THEN PyFalse
    ELSE IF Occurs(LineTraceFound, text) THEN PyTrue
    ELSE None

\* A slip: a run that failed is taken for a timeout whatever it printed.
classify_failure_as_timeout(text) ==
    [orig |-> "SMPT Timeout", proof |-> "SMPT Timeout",
     trace_valid |-> None, proof_valid |-> None]

\* The results of a run that exited with a non-zero code.
classify_failure(text) ==
    IF timeout_flag(text)
    THEN [orig |-> "SMPT Timeout", proof |-> "SMPT Timeout",
          trace_valid |-> None, proof_valid |-> None]
    ELSE [orig |-> "Error", proof |-> "Error",
          trace_valid |-> None, proof_valid |-> None]

\* The pair <<orig, proof>> and the two validity flags read from the output.
classify_output(text, rc) ==
    IF rc = 0
    THEN IF verdict_of(text) = "Serializable"
         THEN [orig |-> "Serializable", proof |-> "Serializable",
               trace_valid |-> None,
               proof_valid |->
                  IF Occurs(LineCertValid, text) THEN PyTrue
                  ELSE IF Occurs(LineCertInvalid, text) THEN PyFalse
                  ELSE IF Occurs(LineCertFound, text) THEN PyTrue
                  ELSE None]
         ELSE IF verdict_of(text) = "Not serializable"
         THEN [orig |-> "Not serializable", proof |-> "Not serializable",
               trace_valid |-> trace_validity(text),
               proof_valid |-> None]
         ELSE IF verdict_of(text) = "SMPT Timeout"
         THEN [orig |-> "SMPT Timeout", proof |-> "SMPT Timeout",
               trace_valid |-> None, proof_valid |-> None]
         ELSE [orig |-> "Unknown", proof |-> "Unknown",
               trace_valid |-> None, proof_valid |-> None]
    ELSE classify_failure(text)

\* The combined status of the two methods' results.
combined_status(orig, proof) ==
    IF orig = proof
    THEN CASE orig = "Serializable" -> "[ok] Serializable"
           [] orig = "Not serializable" -> "[x] Not serializable"
           [] orig = "SMPT Timeout" -> "[t] SMPT Timeout"
           [] OTHER -> "[!] Error"
    ELSE "[!] Error"

run_single_analysis(text, rc) ==
    LET c == classify_output(text, rc)
    IN  [status |-> combined_status(c.orig, c.proof),
         original_result |-> c.orig,
         proof_result |-> c.proof,
         trace_valid |-> c.trace_valid,
         proof_verification |-> c.proof_valid,
         is_timeout |-> Py(timeout_flag(text))]

\* find_proof_issues.analyze_output.
\* analyze_examples.run_single_analysis (the script at the top of the
\* repository), from the point where the process has ended: `output` is
\* stdout + stderr.
is_smpt_timeout(output) ==
    \/ Occurs("SMPT timeout:", output)
    \/ Occurs("SMPT verification failed: SMPT timeout:", output)
    \/ Occurs("Failed to run SMPT: SMPT timeout:", output)
    \/ Occurs(LineAnalysisTimedOut, output)

\* The results of the two methods, read separately.
method_results(output, rc) ==
    IF rc = 0
    THEN [original_result |->
             IF Occurs(LineOrigSer, output) THEN "Serializable"
             ELSE IF Occurs(LineOrigNotSer, output) THEN "Not serializable"
             ELSE "Unknown",
          proof_result |->
             IF Occurs(LineProofProof, output) THEN "Serializable"
             ELSE IF Occurs(LineProofCex, output) THEN "Not serializable"
             ELSE "Unknown"]
    ELSE IF is_smpt_timeout(output)
         THEN [original_result |-> "SMPT Timeout",
               proof_result |-> "SMPT Timeout"]
         ELSE [original_result |-> "Error", proof_result |-> "Error"]

\* A slip: two results that differ are reported as an error, as the script
\* under scripts/ does.
methods_status_as_error(original_result, proof_result) ==
    IF original_result = proof_result
    THEN CASE original_result = "Serializable" ->
                [status |-> <<"[ok] Serializable">>,
                 console_status |-> "Serializable"]
           [] original_result = "Not serializable" ->
                [status |-> <<"[x] Not serializable">>,
                 console_status |-> "Not serializable"]
           [] original_result = "SMPT Timeout" ->
                [status |-> <<"[t] SMPT Timeout">>,
                 console_status |-> "SMPT Timeout"]
           [] OTHER ->
                [status |-> <<"[!] Error">>, console_status |-> "Error"]
    ELSE [status |-> <<"[!] Error">>, console_status |-> "Error"]

\* The combined status; the f-string of the disagreement is the tuple of
\* its label and the two results it names.
methods_status(original_result, proof_result) ==
    IF original_result = proof_result
    THEN CASE original_result = "Serializable" ->
                [status |-> <<"[ok] Serializable">>,
                 console_status |-> "Serializable"]
           [] original_result = "Not serializable" ->
                [status |-> <<"[x] Not serializable">>,
                 console_status |-> "Not serializable"]
           [] original_result = "SMPT Timeout" ->
                [status |-> <<"[t] SMPT Timeout">>,
                 console_status |-> "SMPT Timeout"]
           [] original_result = "Error" ->
                [status |-> <<"[!] Error">>, console_status |-> "Error"]
           [] OTHER ->
                [status |-> <<"[?] Unknown">>, console_status |-> "Unknown"]
    ELSE [status |-> <<"[!] Inconsistent (orig, proof)", original_result,
                       proof_result>>,
          console_status |-> "Inconsistent"]

analyze_examples_run_single_analysis(output, rc) ==
    LET m == method_results(output, rc)
        c == methods_status(m.original_result, m.proof_result)
    IN  [status |-> c.status,
         console_status |-> c.console_status,
         original_result |-> m.original_result,
         proof_result |-> m.proof_result,
         returncode |-> rc,
         is_timeout |-> Py(is_smpt_timeout(output))]


analyze_output(stdout, errtext) ==
    LET ser == IF Occurs(LineSerSentence, stdout) THEN PyTrue
               ELSE IF Occurs(LineNotSerSentence, stdout) THEN PyFalse
               ELSE None
        issue0 == [category |-> None, details |-> None,
                   serializable |-> ser, proof_status |-> None]
    IN  IF Occurs("TIMEOUT", errtext)
        THEN [issue0 EXCEPT !.category = "timeout"]
        ELSE IF Occurs("thread 'main' panicked", errtext)
        THEN IF Occurs("panicked at ", errtext)
             THEN IF Occurs(LinePanicVariable, errtext)
                  THEN [issue0 EXCEPT !.category = "panic_variable_not_found",
                                      !.details = "src/main.rs:1:1"]
                  ELSE [issue0 EXCEPT !.category = "panic_other",
                                      !.details = "src/main.rs:1:1"]
             ELSE issue0
        ELSE IF Occurs(LineCertValid, stdout)
        THEN [issue0 EXCEPT !.proof_status = "valid", !.category = "ok"]
        ELSE IF Occurs(LineCertInvalid, stdout)
        THEN IF Occurs("Invariant for global state", stdout)
                /\ Occurs("does not imply serializability", stdout)
             THEN [issue0 EXCEPT
                     !.proof_status = "invalid",
                     !.category =
                        "invalid_proof_invariant_outside_serializable",
                     !.details =
                        IF Occurs("Values outside serializable set: ", stdout)
                        THEN "v" ELSE None]
             ELSE IF Occurs(LineInitBad, stdout)
             THEN [issue0 EXCEPT !.proof_status = "invalid",
                                 !.category = "invalid_proof_initial_state"]
             ELSE [issue0 EXCEPT !.proof_status = "invalid",
                                 !.category = "invalid_proof_other"]
        ELSE IF Occurs("Failed to parse proof certificate", stdout)
        THEN IF Occurs("ParseError { message: \"", stdout)
             THEN [issue0 EXCEPT !.category = "proof_parse_error",
                                 !.details = "m"]
             ELSE issue0
        ELSE IF ser # None
        THEN [issue0 EXCEPT !.category = "no_proof_verification"]
        ELSE [issue0 EXCEPT !.category = "unknown"]

\* The harness has not looked at the run yet.
NotRun == "not run"
NoInfo == [EmptyInfo EXCEPT !.status = NotRun]
NoRsa ==
    [status |-> NotRun, original_result |-> None, proof_result |-> None,
     trace_valid |-> None, proof_verification |-> None, is_timeout |-> None]
NoIssue ==
    [category |-> NotRun, details |-> None, serializable |-> None,
     proof_status |-> None]

\* check_proofs.main, one file: the run's output is analysed.
AnalyzeResult ==
    /\ result # "none"
    /\ info = NoInfo
    /\ info' = analyze_result(Stdout, stderr, returncode)
    /\ UNCHANGED <<plan, smpt, reduced, invariant,
                   dstate, trail, kind, out, smpt_calls, smpt_timeouts,
                   result, sysout, stderr, returncode, rsa, issue>>
    /\ UNCHANGED not_engine_vars

\* scripts/analyze_examples.analyze_file, one file.
RunSingleAnalysis ==
    /\ result # "none"
    /\ rsa = NoRsa
    /\ rsa' = run_single_analysis(Stdout \cup stderr, returncode)
    /\ UNCHANGED <<plan, smpt, reduced, invariant,
                   dstate, trail, kind, out, smpt_calls, smpt_timeouts,
                   result, sysout, stderr, returncode, info, issue>>
    /\ UNCHANGED not_engine_vars

\* find_proof_issues.main, one file.
AnalyzeOutput ==
    /\ result # "none"
    /\ issue = NoIssue
    /\ issue' = analyze_output(Stdout, stderr)
    /\ UNCHANGED <<plan, smpt, reduced, invariant,
                   dstate, trail, kind, out, smpt_calls, smpt_timeouts,
                   result, sysout, stderr, returncode, info, rsa>>
    /\ UNCHANGED not_engine_vars

\* analyze_examples.analyze_file, one file (the run with optimizations).
RunSingleAnalysisRoot ==
    /\ result # "none"
    /\ rsa_root = NoRsa
    /\ rsa_root' =
          analyze_examples_run_single_analysis(Stdout \cup stderr, returncode)
    /\ UNCHANGED engine_vars
    /\ UNCHANGED ns_vars
    /\ UNCHANGED harness_vars
    /\ UNCHANGED det_vars
    /\ UNCHANGED net_vars
    /\ UNCHANGED prune_vars

\* ------------------------------------------------- check_proofs.main
\* check_proofs.run_serializability_checker: what it returns when the
\* process does not end within 30 seconds, and when it cannot be started.
RunTimeoutExpired ==
    [stdout |-> {}, stderr |-> {LineExceptionTimeout}, returncode |-> -1]

RunException ==
    [stdout |-> {}, stderr |-> {LineExceptionError}, returncode |-> -1]

\* A slip: a serializable result is not asked for its NS-level invariants.
is_problematic_without_invariants(i) ==
    IF i.status = "error" THEN TRUE
    ELSE IF i.result = "serializable"
    THEN \/ i.proof_valid = PyFalse
         \/ i.proof_valid \in {None, Absent}
         \/ i.initial_state_check # PyTrue
    ELSE IF i.result = "not_serializable"
    THEN i.has_ns_trace # PyTrue \/ i.has_completed_pairs # PyTrue
    ELSE i.result = "unknown"

\* check_proofs.main, "Identify problematic cases".
is_problematic(i) ==
    IF i.status = "error" THEN TRUE
    ELSE IF i.result = "serializable"
    THEN \/ i.proof_valid = PyFalse
         \/ i.proof_valid \in {None, Absent}
         \/ i.has_ns_invariants # PyTrue
         \/ i.initial_state_check # PyTrue
    ELSE IF i.result = "not_serializable"
    THEN i.has_ns_trace # PyTrue \/ i.has_completed_pairs # PyTrue
    ELSE i.result = "unknown"

\* No file has been tested, main has not returned.
NoJsonFile == [stdout |-> {}, stderr |-> {}, returncode |-> 0]
NotReturned == -1

IdleProofs ==
    /\ json_files = 0
    /\ json_file = NoJsonFile
    /\ proof_info = NoInfo
    /\ printed = <<>>
    /\ problematic_files = <<>>
    /\ exit_status = NotReturned

\* check_proofs.main, one turn of the loop: the checker is run on the next
\* file and its output analysed.
TestFile(run) ==
    /\ exit_status = NotReturned
    /\ Len(printed) < json_files
    /\ json_file' = run
    /\ LET i == analyze_result(run.stdout, run.stderr, run.returncode)
       IN  /\ proof_info' = i
           /\ printed' = Append(printed,
                                IF is_problematic(i) THEN "PROBLEMATIC"
                                ELSE "OK")
           /\ problematic_files' =
                 IF is_problematic(i)
                 THEN Append(problematic_files, Len(printed) + 1)
                 ELSE problematic_files
    /\ UNCHANGED <<json_files, exit_status>>
    /\ UNCHANGED <<engine_vars, ns_vars, tool_vars, det_vars, net_vars,
                   prune_vars, file_vars, pair_vars, pool_vars, mode_vars,
                   gen_vars>>

\* check_proofs.main after the loop: the summary, and the return value
\* that becomes the exit status.
MainReturns ==
    /\ exit_status = NotReturned
    /\ Len(printed) = json_files
    /\ exit_status' = Len(problematic_files)
    /\ UNCHANGED <<json_files, json_file, proof_info, printed,
                   problematic_files>>
    /\ UNCHANGED <<engine_vars, ns_vars, tool_vars, det_vars, net_vars,
                   prune_vars, file_vars, pair_vars, pool_vars, mode_vars,
                   gen_vars>>

\* ------------------------------------ analyze_examples.analyze_file
\* subprocess.run raised TimeoutExpired: the process did not end within
\* twice the timeout.
Expired == [ended |-> FALSE, output |-> {}, rc |-> 1]

\* opt_result.get('is_timeout', False).
timed_out(r) == r.is_timeout = PyTrue

\* analyze_examples.analyze_file: the file is analysed twice, with and
\* without optimizations, and the two results are compared.  A status that
\* gets a suffix is the tuple of the status and the suffix.
analyze_file(opt, no_opt) ==
    IF ~opt.ended \/ ~no_opt.ended
    THEN [status |-> <<"[!] Timeout">>,
          opt_original_result |-> Absent, opt_proof_result |-> Absent,
          no_opt_original_result |-> Absent, no_opt_proof_result |-> Absent]
    ELSE
    LET opt_result ==
            analyze_examples_run_single_analysis(opt.output, opt.rc)
        no_opt_result ==
            analyze_examples_run_single_analysis(no_opt.output, no_opt.rc)
        combined ==
            IF opt_result.status # no_opt_result.status
            THEN IF timed_out(opt_result) \/ timed_out(no_opt_result)
                 THEN IF timed_out(opt_result) /\ ~timed_out(no_opt_result)
                      THEN [status |-> Append(no_opt_result.status,
                                              " (opt timed out)")]
                      ELSE IF timed_out(no_opt_result)
                              /\ ~timed_out(opt_result)
                      THEN [status |-> Append(opt_result.status,
                                              " (no-opt timed out)")]
                      ELSE [status |-> <<"[t] Both Timed Out">>]
                 ELSE [status |-> <<"[!] Inconsistent">>]
            ELSE [status |-> opt_result.status]
    IN  [status |-> combined.status,
         opt_original_result |-> opt_result.original_result,
         opt_proof_result |-> opt_result.proof_result,
         no_opt_original_result |-> no_opt_result.original_result,
         no_opt_proof_result |-> no_opt_result.proof_result]

\* No file has been analysed.
NoFile == [status |-> <<NotRun>>]

IdleFile ==
    /\ opt_run = Expired
    /\ no_opt_run = Expired
    /\ file_result = NoFile

\* analyze_examples.analyze_file, one file: both runs have ended.
AnalyzeFile ==
    /\ file_result = NoFile
    /\ file_result' = analyze_file(opt_run, no_opt_run)
    /\ UNCHANGED <<opt_run, no_opt_run>>
    /\ UNCHANGED <<engine_vars, ns_vars, tool_vars, det_vars, net_vars,
                   prune_vars, proofs_vars, pair_vars, pool_vars, mode_vars,
                   gen_vars>>

\* ------------------------------------------------- the random generator
\* examples/json/random/genrand.run_serializability_checker, from the
\* point where the process has ended: `output` is stdout + stderr.

\* `word in output.lower()`: the lines whose lower-case form holds the word.
LowerLines(word) ==
    CASE word = "proof" -> {LineCertFound, LineCertHeader, LineCertValid,
                            LineCertInvalid, LineProofProof, LineProofCex,
                            LineParseError}
      [] word = "trace" -> {LineTraceFound, LineNsTrace, LineTraceValid,
                            LineTraceInvalid}
      [] OTHER -> {}

LowerOccurs(word, text) == text \cap LowerLines(word) # {}

verification_failed(output) ==
    \/ Occurs("Proof certificate is INVALID", output)
    \/ Occurs("Trace validation FAILED", output)
    \/ Occurs("ERROR", output) /\ LowerOccurs("proof", output)
    \/ Occurs("ERROR", output) /\ LowerOccurs("trace", output)

is_serializable(output) ==
    IF \/ Occurs("Proof (Serializable)", output)
       \/ Occurs(LineCertValid, output)
    THEN PyTrue
    ELSE IF \/ Occurs("Trace (Not serializable)", output)
            \/ Occurs("[ok] Trace validation PASSED", output)
    THEN PyFalse
    ELSE IF Occurs("Serializable: true", output) THEN PyTrue
    ELSE IF Occurs("Serializable: false", output) THEN PyFalse
    ELSE None

\* <<success, verification_failed, is_serializable>>.
run_serializability_checker(output, rc) ==
    [success |-> rc = 0,
     verification_failed |-> verification_failed(output),
     is_serializable |-> is_serializable(output)]

\* ------------------------------------------------- the determinism harness
\* scripts/test_determinism.py: the pipeline is run MaxRuns times on the
\* same input; the report of each successful run is kept and the reports
\* are grouped into classes of equal normalized content.

\* Number of runs of the determinism harness (--num-runs).
MaxRuns == 2

\* The values of datetime.now() and of the CPU time that a report of
\* scripts/analyze_examples.py can show.
Timestamps == {"2025-01-01 08:00:00", "2025-01-01 08:00:01"}

Durations == {"0.12"}

\* One line of a report: what kind of line it is and its variable parts.
ReportLine(k, a, b, c) == [kind |-> k, a |-> a, b |-> b, c |-> c]

\* scripts/analyze_examples.run_analysis, the Valid? cell of a row.
valid_cell(r) ==
    CASE r.original_result = "Serializable" ->
            IF r.proof_verification = None THEN "N/A"
            ELSE IF r.proof_verification = PyTrue THEN "[ok]" ELSE "[x]"
      [] r.original_result = "Not serializable" ->
            IF r.trace_valid = None THEN "N/A"
            ELSE IF r.trace_valid = PyTrue THEN "[ok]" ELSE "[x]"
      [] OTHER -> "N/A"

\* Python's sum over the one result r of a condition.
Count(b) == IF b THEN 1 ELSE 0

\* scripts/analyze_examples.run_analysis: the report written for one
\* example: the line "Generated: <now>", the row of the example
\* "| `name` |<result>|<CPU>|<valid>|" and the summary counts.
write_report(r, now, duration) ==
    LET both_ser == /\ r.original_result = "Serializable"
                    /\ r.proof_result = "Serializable"
        both_not == /\ r.original_result = "Not serializable"
                    /\ r.proof_result = "Not serializable"
        s_cnt == Count(both_ser)
        vp == Count(both_ser /\ r.proof_verification = PyTrue)
        ns_cnt == Count(both_not)
        vt == Count(both_not /\ r.trace_valid = PyTrue)
    IN  << ReportLine("Generated:", now, "", ""),
           ReportLine("row", r.original_result, duration, valid_cell(r)),
           ReportLine("Serializable:", s_cnt, vp, s_cnt - vp),
           ReportLine("Not serializable:", ns_cnt, vt, ns_cnt - vt),
           ReportLine("Timeouts:", Count(r.status = "[t] SMPT Timeout"),
                      Count(r.status = "[!] Error"), 1) >>

\* report_NNN.md does not exist.
Missing == <<>>

\* normalize_report, the lines that are skipped: those that contain
\* 'Generated at:' or 'Analysis timestamp:'.
is_kept(line) == line.kind \notin {"Generated at:", "Analysis timestamp:"}

\* normalize_report, one kept line: in a line that contains 's |' and a
\* digit, every word <number>s is replaced (kind "timing s |": a table row
\* whose cells are timings such as 0.123s).
normalize_line(line) ==
    IF line.kind = "timing s |"
    THEN [line EXCEPT !.a = "X.XXXs", !.b = "X.XXXs", !.c = "X.XXXs"]
    ELSE line

\* normalize_report.
normalize_report(content) ==
    LET kept == SelectSeq(content, is_kept)
    IN  [i \in DOMAIN kept |-> normalize_line(kept[i])]

\* compare_reports: identical bytes, or identical after normalization.
compare_reports(report1, report2) ==
    \/ report1 = report2
    \/ normalize_report(report1) = normalize_report(report2)

\* find_equivalence_classes, the inner loop over j from j to num_runs:
\* <<current_class, assigned>>.
RECURSIVE find_equivalent(_, _, _, _, _)
find_equivalent(rep, i, j, current_class, assigned) ==
    IF j > Len(rep) THEN <<current_class, assigned>>
    ELSE IF j \in assigned \/ rep[j] = Missing
         THEN find_equivalent(rep, i, j + 1, current_class, assigned)
    ELSE IF compare_reports(rep[i], rep[j])
         THEN find_equivalent(rep, i, j + 1, Append(current_class, j),
                              assigned \cup {j})
    ELSE find_equivalent(rep, i, j + 1, current_class, assigned)

\* find_equivalence_classes, the outer loop over i from i to num_runs.
RECURSIVE find_classes_from(_, _, _, _)
find_classes_from(rep, i, classes, assigned) ==
    IF i > Len(rep) THEN classes
    ELSE IF i \in assigned \/ rep[i] = Missing
         THEN find_classes_from(rep, i + 1, classes, assigned)
    ELSE LET found == find_equivalent(rep, i, i + 1, <<i>>,
                                      assigned \cup {i})
         IN  find_classes_from(rep, i + 1, Append(classes, found[1]),
                               found[2])

find_equivalence_classes(rep) == find_classes_from(rep, 1, <<>>, {})

\* main: the number of runs whose report was saved.
successful_runs(rep) == Cardinality({i \in DOMAIN rep : rep[i] # Missing})

\* A slip: the runs are taken for identical as soon as a class was found.
all_identical_some_class(classes) == Len(classes) >= 1

\* main: the runs are identical if exactly one class was found.
all_identical(classes) == Len(classes) = 1

SummaryNotEnough == "Not enough successful runs to compare."
SummaryIdentical == "[ok] All runs produced identical results (ignoring timestamps)."
SummaryDifferent == "[!] Found several different equivalence classes."

\* Two reports have not been compared.
NotCompared == [identical |-> "not run", classes |-> <<>>]

IdlePair ==
    /\ report_pair = <<Missing, Missing>>
    /\ comparison = NotCompared

\* compare_reports and find_equivalence_classes on two saved reports.
CompareReports ==
    /\ comparison = NotCompared
    /\ comparison' =
          [identical |-> Py(compare_reports(report_pair[1], report_pair[2])),
           classes |-> find_equivalence_classes(report_pair)]
    /\ UNCHANGED report_pair
    /\ UNCHANGED <<engine_vars, ns_vars, tool_vars, det_vars, net_vars,
                   prune_vars, file_vars, proofs_vars, pool_vars, mode_vars,
                   gen_vars>>

\* ---------------------------------------- the pool of analysis jobs
\* analyze_examples.main and scripts/analyze_examples.run_analysis: one
\* job per input file is submitted to a ThreadPoolExecutor, the results are
\* appended as the jobs complete, then sorted by index, and the report is
\* written from the sorted list.
Root == "analyze_examples.py"
Scripts == "scripts/analyze_examples.py"

\* sorted(Path('examples/ser').glob('*.ser')), and Path(fp).stem.
SortedFiles == <<"a.ser", "b.ser", "c.ser">>
stem(fp) == CASE fp = "a.ser" -> "a" [] fp = "b.ser" -> "b" [] OTHER -> "c"

\* A slip: the results stay in the order of completion.
sort_by_index_omitted(seq) == seq

\* results.sort(key=lambda r: r['index']): a stable sort.
RECURSIVE sort_by_index(_)
sort_by_index(seq) ==
    IF seq = <<>> THEN <<>>
    ELSE LET rest == sort_by_index(Tail(seq))
             before == SelectSeq(rest, LAMBDA r : r.index < Head(seq).index)
             after == SelectSeq(rest, LAMBDA r : r.index >= Head(seq).index)
         IN  before \o <<Head(seq)>> \o after

\* The rows of the report: one per result, in the order of the list.
report_rows(res) ==
    [k \in DOMAIN res |->
        IF "duration" \in DOMAIN res[k]
        THEN [filename |-> res[k].filename,
              result |-> res[k].original_result,
              duration |-> res[k].duration,
              valid |-> valid_cell(res[k])]
        ELSE [filename |-> res[k].filename,
              result |-> res[k].opt_original_result,
              duration |-> "N/A",
              valid |-> "N/A"]]

\* The filenames of the chosen results (Python's list comprehension
\* [r['filename'] for r in results if ...]).
filenames(chosen) == [k \in DOMAIN chosen |-> chosen[k].filename]

\* scripts/analyze_examples.run_analysis: the non-validated cases printed
\* and the report written (its rows and the counts of its summary).
report_of_run_analysis(res, now) ==
    \* sum(1 for r in results if ...) is Len(SelectSeq(res, ...))
    LET both_ser(r) == /\ r.original_result = "Serializable"
                       /\ r.proof_result = "Serializable"
        both_not(r) == /\ r.original_result = "Not serializable"
                       /\ r.proof_result = "Not serializable"
        nv_proof(r) == both_ser(r) /\ r.proof_verification = PyFalse
        nv_trace(r) == both_not(r) /\ r.trace_valid = PyFalse
        valid_proof(r) == both_ser(r) /\ r.proof_verification = PyTrue
        valid_trace(r) == both_not(r) /\ r.trace_valid = PyTrue
        timeout(r) == r.status = "[t] SMPT Timeout"
        error(r) == r.status = "[!] Error"
        s_cnt == Len(SelectSeq(res, both_ser))
        vp == Len(SelectSeq(res, valid_proof))
        ns_cnt == Len(SelectSeq(res, both_not))
        vt == Len(SelectSeq(res, valid_trace))
    IN  [nv_proofs |-> filenames(SelectSeq(res, nv_proof)),
         nv_traces |-> filenames(SelectSeq(res, nv_trace)),
         generated |-> now,
         rows |-> report_rows(res),
         s_cnt |-> s_cnt, vp |-> vp, ip |-> s_cnt - vp,
         ns_cnt |-> ns_cnt, vt |-> vt, it |-> ns_cnt - vt,
         to_cnt |-> Len(SelectSeq(res, timeout)),
         err |-> Len(SelectSeq(res, error)),
         total |-> Len(res)]

\* analyze_examples.main: the report written (its rows).
report_of_main(res, now) == [generated |-> now, rows |-> report_rows(res)]

\* scripts/analyze_examples.run_single_analysis when subprocess.run raises
\* TimeoutExpired.
ResultTimeoutExpired ==
    [status |-> "[t] SMPT Timeout", original_result |-> "SMPT Timeout",
     proof_result |-> "SMPT Timeout", trace_valid |-> None,
     proof_verification |-> None, is_timeout |-> PyTrue]

\* No report has been written.
NoReport == [generated |-> "never"]

IdlePool ==
    /\ script = Scripts
    /\ files = <<>>
    /\ futures = {}
    /\ completed = <<>>
    /\ results = <<>>
    /\ pool_report = NoReport

\* A job completes and as_completed yields its future: its result is
\* appended (analyze_file has added the filename, the duration and the
\* index).
JobCompletes(i, res) ==
    /\ i \in futures
    /\ futures' = futures \ {i}
    /\ completed' = Append(completed, i)
    /\ results' =
          Append(results,
                 IF script = Scripts
                 THEN res @@ [filename |-> stem(files[i + 1]),
                              duration |-> "0.12", index |-> i]
                 ELSE res @@ [filename |-> stem(files[i + 1]), index |-> i])
    /\ UNCHANGED <<script, files, pool_report>>
    /\ UNCHANGED <<engine_vars, ns_vars, tool_vars, det_vars, net_vars,
                   prune_vars, file_vars, proofs_vars, pair_vars, mode_vars,
                   gen_vars>>

\* All jobs have completed: the results are sorted by index and the
\* report is written.
WriteReport(now) ==
    /\ futures = {}
    /\ pool_report = NoReport
    /\ results' = sort_by_index(results)
    /\ pool_report' = IF script = Scripts
                      THEN report_of_run_analysis(results', now)
                      ELSE report_of_main(results', now)
    /\ UNCHANGED <<script, files, futures, completed>>
    /\ UNCHANGED <<engine_vars, ns_vars, tool_vars, det_vars, net_vars,
                   prune_vars, file_vars, proofs_vars, pair_vars, mode_vars,
                   gen_vars>>

\* The certificate content of a reported result: the verified traces of a
\* NotSerializable result, the verified proofs of a Serializable one.
Certificate ==
    CASE result = "NotSerializable" ->
            {d \in Disjuncts : DisproofVerified(d)}
      [] result = "Serializable" -> {d \in Disjuncts : ProofVerified(d)}
      [] OTHER -> {}

\* The pipeline is started again on the same input.
StartAgain ==
    /\ dstate' = [d \in Disjuncts |-> "Init"]
    /\ trail' = [d \in Disjuncts |-> <<"Init">>]
    /\ kind' = [d \in Disjuncts |-> "none"]
    /\ out' = [d \in Disjuncts |-> {}]
    /\ smpt_calls' = [d \in Disjuncts |-> 0]
    /\ smpt_timeouts' = [d \in Disjuncts |-> 0]
    /\ smpt' = [d \in Disjuncts |-> "none"]
    /\ reduced' = [d \in Disjuncts |-> "none"]
    /\ invariant' = [d \in Disjuncts |-> "none"]
    /\ result' = "none"
    /\ sysout' = {}
    /\ stderr' = {}
    /\ returncode' = 0
    /\ rsa' = NoRsa

\* run_analysis, at the end of one run of the pipeline: the report of the
\* run is saved unless the analysis script failed or wrote no report; main
\* then starts the next run, if any.
RunAnalysis ==
    /\ result # "none"
    /\ rsa # NoRsa
    /\ Len(reports) < MaxRuns
    /\ runs' = Append(runs, [result |-> result, certificate |-> Certificate])
    /\ \E ok \in BOOLEAN : \E now \in Timestamps : \E cpu \in Durations :
          reports' = Append(reports,
                            IF ok THEN write_report(rsa, now, cpu)
                            ELSE Missing)
    /\ IF Len(reports) + 1 < MaxRuns
       THEN StartAgain
       ELSE UNCHANGED <<dstate, trail, kind, out, smpt_calls, smpt_timeouts,
                        smpt, reduced, invariant, result, sysout, stderr,
                        returncode, rsa>>
    /\ UNCHANGED <<plan, info, issue, equivalence_classes, summary>>
    /\ UNCHANGED ns_vars
    /\ UNCHANGED harness_vars
    /\ UNCHANGED tool_vars
    /\ UNCHANGED net_vars
    /\ UNCHANGED prune_vars

\* main, after the runs: the classes are found and the summary is printed.
Main ==
    /\ Len(reports) = MaxRuns
    /\ summary = "none"
    /\ IF successful_runs(reports) < 2
       THEN /\ summary' = SummaryNotEnough
            /\ UNCHANGED equivalence_classes
       ELSE /\ equivalence_classes' = find_equivalence_classes(reports)
            /\ summary' = IF all_identical(equivalence_classes')
                          THEN SummaryIdentical
                          ELSE SummaryDifferent
    /\ UNCHANGED <<runs, reports>>
    /\ UNCHANGED engine_vars
    /\ UNCHANGED ns_vars
    /\ UNCHANGED harness_vars
    /\ UNCHANGED tool_vars
    /\ UNCHANGED net_vars
    /\ UNCHANGED prune_vars

\* ------------------------------------------------- network systems
\* A network system is the record of the generators' dictionaries:
\* initial_global, requests (<<name, local>>), responses (<<local, name>>)
\* and transitions (<<local, global, local', global'>>), lists kept as
\* sequences.

\* Largest number of request instances that run together.
MaxRequests == 2

\* Largest value of each count given to the exhaustive generator.
MaxParam == 2

Range(seq) == {seq[i] : i \in DOMAIN seq}

Min(a, b) == IF a <= b THEN a ELSE b

NS(ig, rq, rs, tr) ==
    [initial_global |-> ig, requests |-> rq, responses |-> rs,
     transitions |-> tr]

\* find_minimal_nonser.minimal_candidates.
minimal_candidates ==
    << NS("G0",
          << <<"writer", "L0">>, <<"reader", "L0">> >>,
          << <<"L1", "done">>, <<"L1", "saw_G0">>, <<"L2", "saw_G1">> >>,
          << <<"L0", "G0", "L2", "G1">>, <<"L2", "G1", "L1", "G0">>,
             <<"L0", "G0", "L1", "G0">>, <<"L0", "G1", "L2", "G1">> >>),
       NS("A",
          << <<"P", "s">>, <<"Q", "s">> >>,
          << <<"t", "done">>, <<"t", "sawA">>, <<"u", "sawB">> >>,
          << <<"s", "A", "u", "B">>, <<"u", "B", "t", "A">>,
             <<"s", "A", "t", "A">>, <<"s", "B", "u", "B">> >>),
       NS("X",
          << <<"P", "s">>, <<"Q", "s">> >>,
          << <<"t", "a">>, <<"u", "b">> >>,
          << <<"s", "X", "t", "Y">>, <<"t", "Y", "s", "X">>,
             <<"s", "X", "s", "X">>, <<"s", "Y", "u", "Y">> >>) >>

\* The f-string names of exhaustive_gen: G{i}, L{i}, Req{i}, Resp{i}.
global_name(i) == <<"G0", "G1", "G2">>[i + 1]
local_name(i) == <<"L0", "L1", "L2">>[i + 1]
request_name(i) == <<"Req0", "Req1", "Req2">>[i + 1]
response_name(i) == <<"Resp0", "Resp1", "Resp2">>[i + 1]

\* seq[:n] of Python.
Prefix(seq, n) == SubSeq(seq, 1, Min(n, Len(seq)))

\* The four transitions of the cyclic pattern of exhaustive_gen.
cyclic_transitions ==
    << <<"L0", "G0", "L1", "G1">>, <<"L1", "G1", "L0", "G0">>,
       <<"L0", "G1", "L1", "G0">>, <<"L1", "G0", "L0", "G1">> >>

\* The four transitions of its interference pattern (and of pattern 4).
interference_transitions ==
    << <<"L0", "G0", "L1", "G1">>, <<"L1", "G1", "L0", "G0">>,
       <<"L0", "G0", "L0", "G0">>, <<"L0", "G1", "L1", "G1">> >>

\* A slip: with no transition asked for, the cyclic pattern is emitted
\* without its [:num_transitions] cut.
generate_all_ns_with_params_uncut(num_global, num_local, num_requests, num_responses, num_transitions) ==
    { NS(global_name(g),
         [i \in 1..num_requests |->
             <<request_name(i - 1), local_name((i - 1) % num_local)>>],
         [i \in 1..num_responses |->
             <<local_name((i - 1) % num_local), response_name(i - 1)>>],
         IF num_global >= 2 /\ num_local >= 2
         THEN cyclic_transitions ELSE <<>>)
      : g \in 0..(num_global - 1) }

\* ExhaustiveNSGenerator.generate_all_ns_with_params, for the parameters
\* used here: they yield fewer systems than max_per_config.
generate_all_ns_with_params(num_global, num_local, num_requests, num_responses, num_transitions) ==
    LET requests ==
            [i \in 1..num_requests |->
                <<request_name(i - 1), local_name((i - 1) % num_local)>>]
        responses ==
            [i \in 1..num_responses |->
                <<local_name((i - 1) % num_local), response_name(i - 1)>>]
        \* itertools.product(local, global, local, global), 0-based index
        possible(i) ==
            <<local_name(i \div (num_global * num_local * num_global)),
              global_name((i \div (num_local * num_global)) % num_global),
              local_name((i \div num_global) % num_local),
              global_name(i % num_global)>>
        n_possible == num_local * num_global * num_local * num_global
        sequential ==
            [i \in 1..Min(num_transitions, n_possible) |-> possible(i - 1)]
        of_initial(ig) ==
            IF num_transitions = 0
            THEN {NS(ig, requests, responses, <<>>)}
            ELSE {NS(ig, requests, responses, sequential)}
                 \cup
                 (IF num_global >= 2 /\ num_local >= 2
                     /\ num_transitions >= 4
                  THEN {NS(ig, requests, responses,
                           Prefix(cyclic_transitions, num_transitions))}
                  ELSE {})
                 \cup
                 (IF num_global >= 2 /\ num_local >= 2
                     /\ num_requests >= 2 /\ num_transitions >= 4
                  THEN {NS(ig, requests,
                           IF num_responses >= 2
                           THEN << <<"L0", "Resp0">>, <<"L1", "Resp1">> >>
                           ELSE responses,
                           Prefix(interference_transitions,
                                  num_transitions))}
                  ELSE {})
                 \cup
                 (IF num_requests = 1 /\ num_responses >= 2
                     /\ num_global >= 2 /\ num_local >= 2
                  THEN {NS(ig, << <<"Req0", "L0">> >>,
                           [i \in 1..Min(num_responses, num_local) |->
                               <<local_name(i - 1), response_name(i - 1)>>],
                           Prefix(interference_transitions,
                                  num_transitions))}
                  ELSE {})
    IN  UNION { of_initial(global_name(g)) : g \in 0..(num_global - 1) }

\* The zero-transition systems of the exhaustive generator.
ZeroTransitionSystems ==
    UNION { generate_all_ns_with_params(g, l, rq, rs, 0) :
              g \in 1..MaxParam, l \in 1..MaxParam,
              rq \in 1..MaxParam, rs \in 1..MaxParam }

\* The network systems that are run.
NetworkSystems ==
    Range(minimal_candidates)
    \cup ZeroTransitionSystems
    \cup generate_all_ns_with_params(2, 2, 2, 2, 4)
    \cup generate_all_ns_with_params(2, 2, 1, 2, 4)

\* ------------------------------------- exhaustive_gen: systems of a size

\* The defaults of ExhaustiveNSGenerator.__init__ (and of main's options).
max_global == 3
max_local == 3
max_requests == 2
max_responses == 2

\* The default of main's --start-size.
start_size == 5

\* ExhaustiveNSGenerator.compute_size.
compute_size(num_global, num_local, num_requests, num_responses, num_transitions) ==
    num_global + num_local + num_requests + num_responses + num_transitions

\* The parameter tuples that the four nested loops of
\* generate_all_ns_of_size go through, with the num_transitions computed
\* for each; range(a, b) is a..(b - 1), and range(a, 0, -1) is 1..a.
parameter_tuples(size) ==
    { <<num_global, num_local, num_requests, num_responses,
        size - num_global - num_local - num_requests - num_responses>> :
        <<num_responses, num_global, num_local, num_requests>> \in
          { q \in (1..max_responses) \X (1..max_global) \X (1..max_local)
                    \X (1..max_requests) :
              /\ q[1] <= Min(max_responses, size - 3)
              /\ q[2] <= Min(max_global + 1, size - q[1]) - 1
              /\ q[3] <= Min(max_local + 1, size - q[2] - q[1]) - 1
              /\ q[4] <= Min(max_requests + 1,
                             size - q[2] - q[3] - q[1] + 1) - 1
              /\ size - q[2] - q[3] - q[4] - q[1] >= 0 } }

\* ExhaustiveNSGenerator.generate_all_ns_of_size: the systems of ns_list.
generate_all_ns_of_size(size) ==
    UNION { generate_all_ns_with_params(p[1], p[2], p[3], p[4], p[5]) :
              p \in parameter_tuples(size) }

\* Nothing has been appended to ns_list.
NotYielded == [params |-> <<>>, ns |-> NS("G0", <<>>, <<>>, <<>>)]

\* ------------------- generate_big_summary_table_from_jsonl: the table

TIMEOUT_IN_SECOND == 300

TIMEOUT_MS == 1000 * TIMEOUT_IN_SECOND

\* SYMBOLS: CSV result -> LaTeX symbol.
SYMBOLS ==
    [r \in {"serializable", "not_serializable", "timeout"} |->
        CASE r = "serializable" -> "\\greencmark"
          [] r = "not_serializable" -> "\\xmark"
          [] r = "timeout" -> "\\textbf{?}"]

HARD_SERIALIZABLE == {"g2.ser"}

HARD_NON_SERIALIZABLE == {"c1.ser", "e2.ser"}

\* CATEGORIES: the categories and their benchmarks, in order (the titles
\* shortened to their first word).
CATEGORIES ==
    << <<"Core", <<"a1.ser", "a2.ser", "a3.ser", "a4.ser", "a5.ser",
                   "a6.ser", "a7.ser">> >>,
       <<"State", <<"b1.json", "b2.json", "b3.json", "b4.json">> >>,
       <<"Fred", <<"c1.ser", "c2.ser", "c3.ser", "c4.ser", "c5.ser",
                   "c6.ser", "c7.ser", "c8.ser">> >>,
       <<"Circular", <<"d1.ser", "d2.ser", "d3.ser", "d4.ser", "d5.ser",
                       "d6.ser", "d7.ser">> >>,
       <<"Concurrency", <<"e1.ser", "e2.ser", "e3.ser", "e4.ser", "e5.ser",
                          "e6.ser", "e7.ser", "e8.ser">> >>,
       <<"Non-deterministic", <<"f1.ser", "f2.ser", "f3.ser", "f4.ser",
                                "f5.ser", "f6.ser", "f7.ser", "f8.ser",
                                "f9.ser">> >>,
       <<"Networking", <<"g1.ser", "g2.ser", "g3.ser", "g4.ser", "g5.ser",
                         "g6.ser", "g7.ser">> >> >>

\* The symbol with no override on timeout: SYMBOLS.get(res, "") for every
\* result.
pick_symbol_without_override(bm, res) ==
    IF res \in DOMAIN SYMBOLS THEN SYMBOLS[res] ELSE ""

\* generate_table: pick symbol, with override on timeout.
pick_symbol(bm, res) ==
    IF res = "timeout"
    THEN IF bm \in HARD_SERIALIZABLE THEN SYMBOLS["serializable"]
         ELSE IF bm \in HARD_NON_SERIALIZABLE
              THEN SYMBOLS["not_serializable"]
              ELSE SYMBOLS["timeout"]
    ELSE IF res \in DOMAIN SYMBOLS THEN SYMBOLS[res] ELSE ""

\* int(total) of the total running times that occur here; any other
\* string raises ValueError, which generate_table turns into 0.
total_ms_of(total) ==
    CASE total = "340" -> 340
      [] total = "300000" -> 300000
      [] OTHER -> 0

\* generate_table: the row written for benchmark bm (the static feature
\* columns of FEATURES_COLS are left out).
table_row(bm, summ) ==
    LET entry == IF bm \in DOMAIN summ THEN summ[bm]
                 ELSE <<"", "", "">>
        res == entry[1]
        cert == entry[2]
        total == entry[3]
    IN  [bm |-> bm,
         sym |-> pick_symbol(bm, res),
         cert_disp |-> IF res = "timeout" THEN "\\texttt{TIMEOUT}" ELSE cert,
         total_disp |->
            IF res = "timeout" \/ total_ms_of(total) >= TIMEOUT_MS
            THEN "\\texttt{TIMEOUT}" ELSE total]

\* generate_table: the body of the table, a list of rows per category.
generate_table(summ) ==
    [c \in DOMAIN CATEGORIES |->
        [i \in DOMAIN CATEGORIES[c][2] |->
            table_row(CATEGORIES[c][2][i], summ)]]

\* No table has been written.
NoTable == <<>>

\* main after load_summary: generate_table(summary, OUTPUT_TEX).
GenerateTable ==
    /\ tex = NoTable
    /\ tex' = generate_table(bench_summary)
    /\ UNCHANGED <<target_size, yielded, bench_summary>>
    /\ UNCHANGED <<engine_vars, ns_vars, tool_vars, det_vars, net_vars,
                   prune_vars, file_vars, proofs_vars, pair_vars, pool_vars,
                   mode_vars>>

IdleGen ==
    /\ target_size = 0
    /\ yielded = NotYielded
    /\ bench_summary = [bm \in {} |-> <<"", "", "">>]
    /\ tex = NoTable

\* One pass of the innermost loop of generate_all_ns_of_size: a system
\* that generate_all_ns_with_params yields for a parameter tuple is
\* appended to ns_list.
AppendNS(p, n) ==
    /\ p \in parameter_tuples(target_size)
    /\ n \in generate_all_ns_with_params(p[1], p[2], p[3], p[4], p[5])
    /\ yielded' = [params |-> p, ns |-> n]
    /\ UNCHANGED <<target_size, bench_summary, tex>>
    /\ UNCHANGED <<engine_vars, ns_vars, tool_vars, det_vars, net_vars,
                   prune_vars, file_vars, proofs_vars, pair_vars, pool_vars,
                   mode_vars>>

RequestNames(n) == {r[1] : r \in Range(n.requests)}

ResponseNames(n) == {r[2] : r \in Range(n.responses)}

GlobalStates(n) ==
    {n.initial_global}
    \cup {t[2] : t \in Range(n.transitions)}
    \cup {t[4] : t \in Range(n.transitions)}

LocalStates(n) ==
    {r[2] : r \in Range(n.requests)}
    \cup {r[1] : r \in Range(n.responses)}
    \cup {t[1] : t \in Range(n.transitions)}
    \cup {t[3] : t \in Range(n.transitions)}

\* The local state at which a request enters.
EntryOf(n, name) == (CHOOSE r \in Range(n.requests) : r[1] = name)[2]

\* The request instances that run together: one to MaxRequests of them.
Batches(n) == UNION { [1..k -> RequestNames(n)] : k \in 1..MaxRequests }

\* A configuration: the shared global state and, per request instance, its
\* local state, the response it completed with ("none" before) and whether
\* it has acted.
InitialConfig(n, b) ==
    [glob |-> n.initial_global,
     loc |-> [i \in DOMAIN b |-> EntryOf(n, b[i])],
     resp |-> [i \in DOMAIN b |-> "none"],
     started |-> [i \in DOMAIN b |-> FALSE]]

\* Instance i may act: it has not completed and, in a serial execution,
\* every instance that has acted has completed.
MayAct(c, i, serial) ==
    /\ c.resp[i] = "none"
    /\ serial => \A j \in DOMAIN c.loc \ {i} :
                    c.started[j] => c.resp[j] # "none"

\* The configurations one step away: an instance takes a transition at
\* its local state and the current global state, or completes with a
\* response of its local state.
Steps(n, c, serial) ==
    { [c EXCEPT !.glob = x[2][4], !.loc[x[1]] = x[2][3],
                !.started[x[1]] = TRUE] :
        x \in { y \in (DOMAIN c.loc) \X Range(n.transitions) :
                  /\ MayAct(c, y[1], serial)
                  /\ c.loc[y[1]] = y[2][1]
                  /\ c.glob = y[2][2] } }
    \cup
    { [c EXCEPT !.resp[x[1]] = x[2][2], !.started[x[1]] = TRUE] :
        x \in { y \in (DOMAIN c.loc) \X Range(n.responses) :
                  /\ MayAct(c, y[1], serial)
                  /\ c.loc[y[1]] = y[2][1] } }

RECURSIVE Closure(_, _, _, _)
Closure(n, frontier, seen, serial) ==
    IF frontier = {} THEN seen
    ELSE LET new == UNION {Steps(n, c, serial) : c \in frontier} \ seen
         IN  Closure(n, new, seen \cup new, serial)

\* The configurations reachable by interleaved (resp. serial) execution.
Reachable(n, b, serial) ==
    Closure(n, {InitialConfig(n, b)}, {InitialConfig(n, b)}, serial)

\* The multiset of completed (request, response) pairs.
CompletedPairs(n, b, r) ==
    [p \in RequestNames(n) \X ResponseNames(n) |->
        Cardinality({i \in DOMAIN b : b[i] = p[1] /\ r[i] = p[2]})]

\* The serial-achievable set of a batch of requests.
SerialAchievable(n, b) ==
    {CompletedPairs(n, b, c.resp) : c \in Reachable(n, b, TRUE)}

ConcurrentAchievable(n, b) ==
    {CompletedPairs(n, b, c.resp) : c \in Reachable(n, b, FALSE)}

\* Serializability: every multiset of completed pairs of an interleaved
\* execution is the multiset of some serial execution.
SerializableFor(n, b) ==
    ConcurrentAchievable(n, b) \subseteq SerialAchievable(n, b)

Serializable(n) == \A b \in Batches(n) : SerializableFor(n, b)

\* ------------------------------------------------- Petri net of a system

\* Places: the (local, global) pairs; one transition per NS transition,
\* taking one token from its source place to its target place.
PetriNet(n) ==
    [places |-> LocalStates(n) \X GlobalStates(n),
     transitions |-> {[from |-> <<t[1], t[2]>>, to |-> <<t[3], t[4]>>] :
                         t \in Range(n.transitions)}]

\* Token counts of a configuration: a request instance at local state l
\* under global state g is a token on (l, g).
MarkingOf(n, g, l) ==
    [p \in PetriNet(n).places |->
        Cardinality({i \in DOMAIN l : l[i] = p[1] /\ g = p[2]})]

InitialMarking(n, b) ==
    MarkingOf(n, n.initial_global, InitialConfig(n, b).loc)

\* The marking after t fires at m.
FireAt(m, t) ==
    IF t.from = t.to THEN m
    ELSE [m EXCEPT ![t.from] = @ - 1, ![t.to] = @ + 1]

\* The markings from which completed pairs outside the serial-achievable
\* set are observed.
NonSerialRegion(n, b) ==
    LET serial == SerialAchievable(n, b)
    IN  {MarkingOf(n, c.glob, c.loc) :
            c \in {d \in Reachable(n, b, FALSE) :
                     CompletedPairs(n, b, d.resp) \notin serial}}

\* The three re-verified checks of a proof certificate with invariant inv.
initial_state_ok(inv, m0) == m0 \in inv

inductive_ok(inv, net) ==
    \A m \in inv : \A t \in net.transitions :
        m[t.from] > 0 => FireAt(m, t) \in inv

implies_serializable_ok(inv, bad) == inv \cap bad = {}

\* A transition of the net fires: one token moves from its source place
\* to its target place.
FireNet(t) ==
    /\ marking[t.from] > 0
    /\ marking' = FireAt(marking, t)
    /\ UNCHANGED engine_vars
    /\ UNCHANGED ns_vars
    /\ UNCHANGED harness_vars
    /\ UNCHANGED tool_vars
    /\ UNCHANGED det_vars
    /\ UNCHANGED prune_vars

\* The markings one firing away from a marking of ms.
NetSteps(net, ms) ==
    UNION { {FireAt(m, t) : t \in {u \in net.transitions : m[u.from] > 0}} :
            m \in ms }

RECURSIVE NetClosure(_, _, _)
NetClosure(net, frontier, seen) ==
    IF frontier = {} THEN seen
    ELSE LET new == NetSteps(net, frontier) \ seen
         IN  NetClosure(net, new, seen \cup new)

\* The markings reachable in the net of n from the initial marking of b.
NetReachable(n, b) ==
    NetClosure(PetriNet(n), {InitialMarking(n, b)}, {InitialMarking(n, b)})

\* The token-count encodings of the configurations reachable by a
\* concurrent execution.
Encodings(n, b) ==
    {MarkingOf(n, c.glob, c.loc) : c \in Reachable(n, b, FALSE)}

\* ------------------------------------------------- bidirectional pruning

\* The places that hold a token in the initial marking.
InitialPlaces(n, b) ==
    {p \in PetriNet(n).places : InitialMarking(n, b)[p] > 0}

\* The observable places: those of a local state that bears a response.
ObservablePlaces(n) ==
    {p \in PetriNet(n).places : \E r \in Range(n.responses) : r[1] = p[1]}

\* The places of net reached from the places in seen along transitions.
RECURSIVE ForwardPlaces(_, _)
ForwardPlaces(net, seen) ==
    LET new == {t.to : t \in {u \in net.transitions : u.from \in seen}}
               \ seen
    IN  IF new = {} THEN seen ELSE ForwardPlaces(net, seen \cup new)

\* The places of net from which a place in seen is reached.
RECURSIVE BackwardPlaces(_, _)
BackwardPlaces(net, seen) ==
    LET new == {t.from : t \in {u \in net.transitions : u.to \in seen}}
               \ seen
    IN  IF new = {} THEN seen ELSE BackwardPlaces(net, seen \cup new)

\* The net restricted to the places in keep: a transition stays if both its
\* places stay.
Restrict(net, keep) ==
    [places |-> net.places \cap keep,
     transitions |-> {t \in net.transitions :
                         t.from \in keep /\ t.to \in keep}]

\* A slip: the backward pass removes nothing.
BackwardPass_skipped(net, observable) == net

\* The forward pass: what is unreachable from the initial marking goes.
ForwardPass(net, initial) ==
    Restrict(net, ForwardPlaces(net, initial \cap net.places))

\* The backward pass: what cannot reach an observable place goes.
BackwardPass(net, observable) ==
    Restrict(net, BackwardPlaces(net, observable \cap net.places))

\* The places and transitions of net that are not in smaller.
Removed(net, smaller) ==
    Cardinality(net.places \ smaller.places)
    + Cardinality(net.transitions \ smaller.transitions)

\* The first pass of an iteration.
PruneForward ==
    /\ pruning.phase = "forward"
    /\ LET after == ForwardPass(pruning.net, InitialPlaces(ns, batch))
       IN  pruning' = [pruning EXCEPT
                          !.net = after,
                          !.phase = "backward",
                          !.pending = Removed(pruning.net, after)]
    /\ UNCHANGED engine_vars
    /\ UNCHANGED ns_vars
    /\ UNCHANGED harness_vars
    /\ UNCHANGED tool_vars
    /\ UNCHANGED det_vars
    /\ UNCHANGED net_vars

\* The second pass of an iteration; the iteration is counted, and pruning
\* stops when the iteration removed nothing.
PruneBackward ==
    /\ pruning.phase = "backward"
    /\ LET after == BackwardPass(pruning.net, ObservablePlaces(ns))
           removed == pruning.pending + Removed(pruning.net, after)
       IN  pruning' = [pruning EXCEPT
                          !.net = after,
                          !.phase = IF removed = 0 THEN "done" ELSE "forward",
                          !.pending = 0,
                          !.removed = Append(@, removed),
                          !.pruning_iterations = @ + 1]
    /\ UNCHANGED engine_vars
    /\ UNCHANGED ns_vars
    /\ UNCHANGED harness_vars
    /\ UNCHANGED tool_vars
    /\ UNCHANGED det_vars
    /\ UNCHANGED net_vars

\* ------------------------------------------------- running a system

\* An instance takes a transition.
Fire(i, t) ==
    /\ resp[i] = "none"
    /\ loc[i] = t[1]
    /\ glob = t[2]
    /\ loc' = [loc EXCEPT ![i] = t[3]]
    /\ glob' = t[4]
    /\ UNCHANGED <<ns, batch, resp>>
    /\ UNCHANGED not_ns_vars

\* An instance completes with a response of its local state.
ResponseComplete(i, r) ==
    /\ resp[i] = "none"
    /\ loc[i] = r[1]
    /\ resp' = [resp EXCEPT ![i] = r[2]]
    /\ UNCHANGED <<ns, batch, glob, loc>>
    /\ UNCHANGED not_ns_vars

\* ------------------------------------------- the patterns of
\* examples/json/small/gen_nonser_pattern.py
\* A slip: the state-change path goes through L2, the local state of the
\* response saw_G1.
generate_minimal_nonser_through_L2 ==
    NS("G0",
       << <<"R", "L0">> >>,
       << <<"L1", "saw_G0">>, <<"L2", "saw_G1">> >>,
       << <<"L0", "G0", "L2", "G1">>, <<"L2", "G1", "L0", "G0">>,
          <<"L0", "G0", "L1", "G0">>, <<"L0", "G1", "L2", "G1">> >>)

generate_minimal_nonser ==
    NS("G0",
       << <<"R", "L0">> >>,
       << <<"L1", "saw_G0">>, <<"L2", "saw_G1">> >>,
       << <<"L0", "G0", "L3", "G1">>, <<"L3", "G1", "L0", "G0">>,
          <<"L0", "G0", "L1", "G0">>, <<"L0", "G1", "L2", "G1">> >>)

generate_write_skew_pattern ==
    NS("BothTrue",
       << <<"ReqA", "checkA">>, <<"ReqB", "checkB">> >>,
       << <<"done", "modified">>, <<"done", "kept_same">> >>,
       << <<"checkA", "BothTrue", "done", "BTrue">>,
          <<"checkA", "BTrue", "done", "BTrue">>,
          <<"checkA", "ATrue", "done", "ATrue">>,
          <<"checkB", "BothTrue", "done", "ATrue">>,
          <<"checkB", "ATrue", "done", "ATrue">>,
          <<"checkB", "BTrue", "done", "BTrue">>,
          <<"checkA", "ATrue", "done", "BothFalse">>,
          <<"checkB", "BTrue", "done", "BothFalse">> >>)

\* The patterns that main writes and gives to the checker (those whose
\* executions are followed here).
patterns == {generate_minimal_nonser, generate_write_skew_pattern}

IdleMode ==
    /\ mode = "concurrent"
    /\ turn = 0

\* Serial execution: instance i may act if no other instance is in the
\* middle of its execution.
MayTakeTurn(i) == turn \in {0, i}

\* Serial execution: the instance whose turn it is takes a transition.
SerialFire(i, t) ==
    /\ mode = "serial"
    /\ MayTakeTurn(i)
    /\ resp[i] = "none"
    /\ loc[i] = t[1]
    /\ glob = t[2]
    /\ loc' = [loc EXCEPT ![i] = t[3]]
    /\ glob' = t[4]
    /\ turn' = i
    /\ UNCHANGED <<ns, batch, resp, mode>>
    /\ UNCHANGED <<engine_vars, tool_vars, det_vars, net_vars, prune_vars,
                   file_vars, proofs_vars, pair_vars, pool_vars, gen_vars>>

\* Serial execution: the instance whose turn it is completes with a
\* response of its local state; the next instance may begin.
SerialResponseComplete(i, r) ==
    /\ mode = "serial"
    /\ MayTakeTurn(i)
    /\ resp[i] = "none"
    /\ loc[i] = r[1]
    /\ resp' = [resp EXCEPT ![i] = r[2]]
    /\ turn' = 0
    /\ UNCHANGED <<ns, batch, glob, loc, mode>>
    /\ UNCHANGED <<engine_vars, tool_vars, det_vars, net_vars, prune_vars,
                   file_vars, proofs_vars, pair_vars, pool_vars, gen_vars>>

\* ------------------------------------------------- the specification

\* The reporting scripts have not been started.
IdleHarness ==
    IdleFile /\ IdleProofs /\ IdlePair /\ IdlePool /\ IdleMode
    /\ IdleGen

\* No disjunct has been taken up and nothing has been reported.
InitEngine ==
    /\ dstate = [d \in Disjuncts |-> "Init"]
    /\ trail = [d \in Disjuncts |-> <<"Init">>]
    /\ kind = [d \in Disjuncts |-> "none"]
    /\ out = [d \in Disjuncts |-> {}]
    /\ smpt_calls = [d \in Disjuncts |-> 0]
    /\ smpt_timeouts = [d \in Disjuncts |-> 0]
    /\ smpt = [d \in Disjuncts |-> "none"]
    /\ reduced = [d \in Disjuncts |-> "none"]
    /\ invariant = [d \in Disjuncts |-> "none"]
    /\ result = "none"
    /\ sysout = {}
    /\ stderr = {}
    /\ returncode = 0
    /\ info = NoInfo
    /\ rsa = NoRsa
    /\ issue = NoIssue
    /\ rsa_root = NoRsa
    /\ runs = <<>>
    /\ reports = <<>>
    /\ equivalence_classes = <<>>
    /\ summary = "none"

\* The request instances sit at their entry states.
InitRun ==
    /\ glob = InitialConfig(ns, batch).glob
    /\ loc = InitialConfig(ns, batch).loc
    /\ resp = InitialConfig(ns, batch).resp
    /\ marking = InitialMarking(ns, batch)
    /\ pruning = [net |-> PetriNet(ns), phase |-> "forward", pending |-> 0,
                  removed |-> <<>>, pruning_iterations |-> 0]

Init ==
    /\ plan \in [Disjuncts -> Plans]
    /\ InitEngine
    /\ ns = minimal_candidates[1]
    /\ batch = <<"writer">>
    /\ InitRun
    /\ IdleHarness

Next ==
    \/ \E d \in Disjuncts : StartReducing(d)
    \/ \E d \in Disjuncts : BuildInvariant(d)
    \/ \E d \in Disjuncts : QueryOracle(d)
    \/ \E d \in Disjuncts : OracleReturns(d)
    \/ \E d \in Disjuncts : VerifyCertificate(d)
    \/ \E d \in Disjuncts : VerifyTrace(d)
    \/ \E d \in Disjuncts : GiveUp(d)
    \/ Report
    \/ AnalyzeResult
    \/ RunSingleAnalysis
    \/ AnalyzeOutput

Spec == Init /\ [][Next]_vars

\* The runs of the network systems: a system and a batch of request
\* instances are chosen, then the instances act in any interleaving.
InitNS ==
    /\ plan = [d \in Disjuncts |-> CHOOSE p \in Plans : p.oracle = "timeout"]
    /\ InitEngine
    /\ ns \in NetworkSystems
    /\ batch \in Batches(ns)
    /\ InitRun
    /\ IdleHarness

NextNS ==
    \/ \E i \in DOMAIN batch : \E t \in Range(ns.transitions) : Fire(i, t)
    \/ \E i \in DOMAIN batch : \E r \in Range(ns.responses) :
          ResponseComplete(i, r)

SpecNS == InitNS /\ [][NextNS]_vars

\* The runs of the Petri nets of the network systems: from the initial
\* marking of a batch of request instances, the transitions fire in any
\* order.
NextNet == \E t \in PetriNet(ns).transitions : FireNet(t)

SpecNet == InitNS /\ [][NextNet]_vars

\* Bidirectional pruning of the Petri nets of the network systems; a pass
\* that can run does run.
NextPrune == PruneForward \/ PruneBackward

SpecPrune == InitNS /\ [][NextPrune]_vars /\ WF_vars(NextPrune)

\* The harness on a given output: the process has ended with some lines
\* on stdout and stderr and some exit code, and the scripts analyse it.

\* Largest number of lines of a given stdout.
MaxLines == 2

StdoutLines ==
    {LineSer, LineSerSentence, LineNotSer, LineNotSerSentence, LineTimeout,
     LineCertFound, LineCertHeader, LineNsInvariants, LineInitOk,
     LineInitBad, LineImpliesBad, LineOutside, LineCertValid,
     LineCertInvalid, LineTraceFound, LineNsTrace, LinePairs,
     LineTraceValid, LineTraceInvalid, LineOrigSer, LineOrigNotSer,
     LineProofProof, LineProofCex}

StderrLines ==
    {LineSmptTimeout, LineSmptFailedRun, LineError, LineAnalysisTimedOut,
     LineTimeout, LineTooLarge, LinePanic, LinePanicVariable,
     LineParseError}

\* The subsets of S of at most k elements.
RECURSIVE UpTo(_, _)
UpTo(S, k) ==
    IF k = 0 THEN {{}}
    ELSE LET smaller == UpTo(S, k - 1)
         IN  smaller \cup {T \cup {x} : T \in smaller, x \in S}

InitGiven ==
    /\ plan = [d \in Disjuncts |-> CHOOSE p \in Plans : p.oracle = "timeout"]
    /\ dstate = [d \in Disjuncts |-> "Init"]
    /\ trail = [d \in Disjuncts |-> <<"Init">>]
    /\ kind = [d \in Disjuncts |-> "none"]
    /\ out = [d \in Disjuncts |-> {}]
    /\ smpt_calls = [d \in Disjuncts |-> 0]
    /\ smpt_timeouts = [d \in Disjuncts |-> 0]
    /\ smpt = [d \in Disjuncts |-> "none"]
    /\ reduced = [d \in Disjuncts |-> "none"]
    /\ invariant = [d \in Disjuncts |-> "none"]
    /\ result = "given"
    /\ sysout \in UpTo(StdoutLines, MaxLines)
    /\ stderr \in UpTo(StderrLines, 1)
    /\ returncode \in {0, 1}
    /\ info = NoInfo
    /\ rsa = NoRsa
    /\ issue = NoIssue
    /\ rsa_root = NoRsa
    /\ runs = <<>>
    /\ reports = <<>>
    /\ equivalence_classes = <<>>
    /\ summary = "none"
    /\ IdleHarness
    /\ ns = minimal_candidates[1]
    /\ batch = <<"writer">>
    /\ InitRun

NextGiven ==
    \/ AnalyzeResult
    \/ RunSingleAnalysis
    \/ AnalyzeOutput
    \/ RunSingleAnalysisRoot

SpecGiven == InitGiven /\ [][NextGiven]_vars

\* find_proof_issues.analyze_output on a given output: every combination
\* of up to MaxLines of the markers it tests in stdout, and in stderr.
IssueStdoutLines ==
    {LineSerSentence, LineNotSerSentence, LineCertValid, LineCertInvalid,
     LineImpliesBad, LineOutside, LineInitBad, LineParseError,
     LineParseFailed}

IssueStderrLines ==
    {LineExceptionTimeout, LinePanic, LinePanicked, LinePanicVariable}

InitIssue ==
    /\ plan = [d \in Disjuncts |-> CHOOSE p \in Plans : p.oracle = "timeout"]
    /\ dstate = [d \in Disjuncts |-> "Init"]
    /\ trail = [d \in Disjuncts |-> <<"Init">>]
    /\ kind = [d \in Disjuncts |-> "none"]
    /\ out = [d \in Disjuncts |-> {}]
    /\ smpt_calls = [d \in Disjuncts |-> 0]
    /\ smpt_timeouts = [d \in Disjuncts |-> 0]
    /\ smpt = [d \in Disjuncts |-> "none"]
    /\ reduced = [d \in Disjuncts |-> "none"]
    /\ invariant = [d \in Disjuncts |-> "none"]
    /\ result = "given"
    /\ sysout \in UpTo(IssueStdoutLines, MaxLines)
    /\ stderr \in UpTo(IssueStderrLines, MaxLines)
    /\ returncode \in {0, 1}
    /\ info = NoInfo
    /\ rsa = NoRsa
    /\ issue = NoIssue
    /\ rsa_root = NoRsa
    /\ runs = <<>>
    /\ reports = <<>>
    /\ equivalence_classes = <<>>
    /\ summary = "none"
    /\ IdleHarness
    /\ ns = minimal_candidates[1]
    /\ batch = <<"writer">>
    /\ InitRun

NextIssue == AnalyzeOutput

SpecIssue == InitIssue /\ [][NextIssue]_vars

\* The determinism harness: the pipeline is run MaxRuns times on the same
\* input (the disjuncts' outcomes are fixed: a deterministic oracle), each
\* time with any scheduling of the workers.
DeterminismPlans ==
    { p \in Plans : /\ CertificateValid(p)
                    /\ TraceValid(p)
                    /\ p.oracle # "failure"
                    /\ p.oracle = "timeout" => p.printed = "" }

InitDeterminism ==
    /\ plan \in [Disjuncts -> DeterminismPlans]
    /\ InitEngine
    /\ ns = minimal_candidates[1]
    /\ batch = <<"writer">>
    /\ InitRun
    /\ IdleHarness

NextDeterminism ==
    \/ \E d \in Disjuncts : StartReducing(d)
    \/ \E d \in Disjuncts : BuildInvariant(d)
    \/ \E d \in Disjuncts : QueryOracle(d)
    \/ \E d \in Disjuncts : OracleReturns(d)
    \/ \E d \in Disjuncts : VerifyCertificate(d)
    \/ \E d \in Disjuncts : VerifyTrace(d)
    \/ \E d \in Disjuncts : GiveUp(d)
    \/ Report
    \/ RunSingleAnalysis
    \/ RunAnalysis
    \/ Main

SpecDeterminism == InitDeterminism /\ [][NextDeterminism]_vars

\* analyze_examples.analyze_file on two given runs of one file: each run
\* has ended with some lines of output and some exit code, or has not
\* ended within twice the timeout.

\* Largest number of marker lines in the output of one of the two runs.
MaxOutput == 3

FileOutputLines ==
    {LineOrigSer, LineOrigNotSer, LineProofProof, LineProofCex,
     LineSmptTimeout, LineAnalysisTimedOut}

RunsOfFile ==
    {Expired} \cup
    { [ended |-> TRUE, output |-> o, rc |-> r] :
         o \in UpTo(FileOutputLines, MaxOutput), r \in {0, 1} }

\* The engine and the network systems stand still while the reporting
\* scripts work.
InitIdle ==
    /\ plan = [d \in Disjuncts |-> CHOOSE p \in Plans : p.oracle = "timeout"]
    /\ InitEngine
    /\ ns = minimal_candidates[1]
    /\ batch = <<"writer">>
    /\ InitRun

InitFile ==
    /\ InitIdle
    /\ IdleGen
    /\ IdleMode
    /\ IdlePool
    /\ IdleProofs
    /\ IdlePair
    /\ opt_run \in RunsOfFile
    /\ no_opt_run \in RunsOfFile
    /\ file_result = NoFile

NextFile == AnalyzeFile

SpecFile == InitFile /\ [][NextFile]_vars

\* check_proofs.main on given runs: each file's run has ended with some
\* lines on stdout and stderr and some exit code, or has raised.

\* Largest number of files tested, and of marker lines on one stdout.
MaxFiles == 2
MaxProofLines == 4

ProofOutputLines ==
    {LineSerSentence, LineNotSerSentence, LineCertValid, LineCertInvalid,
     LineNsInvariants, LineInitOk, LineNsTrace, LinePairs}

ProofRuns ==
    {RunTimeoutExpired, RunException} \cup
    { [stdout |-> o, stderr |-> e[1], returncode |-> e[2]] :
         o \in UpTo(ProofOutputLines, MaxProofLines),
         e \in {<<{}, 0>>, <<{}, 1>>, <<{LineError}, 0>>,
                <<{LineTimeout}, 0>>} }

InitProofs ==
    /\ InitIdle
    /\ IdleGen
    /\ IdleMode
    /\ IdlePool
    /\ IdleFile
    /\ IdlePair
    /\ json_files \in 0..MaxFiles
    /\ json_file = NoJsonFile
    /\ proof_info = NoInfo
    /\ printed = <<>>
    /\ problematic_files = <<>>
    /\ exit_status = NotReturned

NextProofs ==
    \/ \E run \in ProofRuns : TestFile(run)
    \/ MainReturns

SpecProofs == InitProofs /\ [][NextProofs]_vars

\* The determinism harness on two given reports: each was written by
\* scripts/analyze_examples.run_analysis for one example, at some time and
\* with some CPU time in its row.
CpuTimes == {"0.12", "0.13"}

ReportedOutputs ==
    UpTo({LineSer, LineNotSer, LineTimeout, LineCertValid, LineCertInvalid,
          LineTraceValid, LineTraceInvalid}, MaxLines)

ReportsOfRunAnalysis ==
    { write_report(run_single_analysis(o, rc), now, cpu) :
         o \in ReportedOutputs, rc \in {0, 1},
         now \in Timestamps, cpu \in CpuTimes }

InitPair ==
    /\ InitIdle
    /\ IdleGen
    /\ IdleMode
    /\ IdlePool
    /\ IdleFile
    /\ IdleProofs
    /\ report_pair \in
          {<<a, b>> : a \in ReportsOfRunAnalysis, b \in ReportsOfRunAnalysis}
    /\ comparison = NotCompared

NextPair == CompareReports

SpecPair == InitPair /\ [][NextPair]_vars

\* The pool of jobs on given results: every job ends with some result of
\* its script, the jobs complete in any order.

\* Largest number of input files.
MaxExamples == 2

\* What a job of scripts/analyze_examples.py can return.
ScriptsJobResults ==
    {ResultTimeoutExpired} \cup
    { run_single_analysis(o, rc) : o \in ReportedOutputs, rc \in {0, 1} }

\* What a job of analyze_examples.py can return.
RootJobResults ==
    LET clean ==
           { Expired,
             [ended |-> TRUE, rc |-> 0,
              output |-> {LineOrigSer, LineProofProof}],
             [ended |-> TRUE, rc |-> 0,
              output |-> {LineOrigNotSer, LineProofCex}] }
    IN  { analyze_file(a, b) : a \in clean, b \in clean }

InitPool ==
    /\ InitIdle
    /\ IdleGen
    /\ IdleMode
    /\ IdleFile
    /\ IdleProofs
    /\ IdlePair
    /\ script \in {Root, Scripts}
    /\ \E n \in 0..MaxExamples :
          /\ files = SubSeq(SortedFiles, 1, n)
          /\ futures = 0..(n - 1)
    /\ completed = <<>>
    /\ results = <<>>
    /\ pool_report = NoReport

NextPool ==
    \/ \E i \in futures :
          \E res \in IF script = Scripts THEN ScriptsJobResults
                     ELSE RootJobResults :
             JobCompletes(i, res)
    \/ \E now \in Timestamps : WriteReport(now)

SpecPool == InitPool /\ [][NextPool]_vars

\* The executions of the patterns of gen_nonser_pattern.py: a pattern, a
\* batch of request instances and the way they execute are chosen, then
\* the instances act.
InitPatterns ==
    /\ plan = [d \in Disjuncts |-> CHOOSE p \in Plans : p.oracle = "timeout"]
    /\ InitEngine
    /\ IdleFile
    /\ IdleProofs
    /\ IdlePair
    /\ IdleGen
    /\ IdlePool
    /\ ns \in patterns
    /\ batch \in Batches(ns)
    /\ InitRun
    /\ mode \in {"concurrent", "serial"}
    /\ turn = 0

NextPatterns ==
    \/ \E i \in DOMAIN batch : \E t \in Range(ns.transitions) :
          mode = "concurrent" /\ Fire(i, t)
    \/ \E i \in DOMAIN batch : \E r \in Range(ns.responses) :
          mode = "concurrent" /\ ResponseComplete(i, r)
    \/ \E i \in DOMAIN batch : \E t \in Range(ns.transitions) :
          SerialFire(i, t)
    \/ \E i \in DOMAIN batch : \E r \in Range(ns.responses) :
          SerialResponseComplete(i, r)

SpecPatterns == InitPatterns /\ [][NextPatterns]_vars

\* exhaustive_gen.main asks the generator for the systems of each size
\* from --start-size on.

\* Largest size asked of the generator.
MaxSize == 8

InitGen ==
    /\ InitIdle
    /\ IdleFile
    /\ IdleProofs
    /\ IdlePair
    /\ IdlePool
    /\ IdleMode
    /\ target_size \in start_size..MaxSize
    /\ yielded = NotYielded
    /\ bench_summary = [bm \in {} |-> <<"", "", "">>]
    /\ tex = NoTable

NextGen ==
    \E p \in parameter_tuples(target_size) :
       \E n \in generate_all_ns_with_params(p[1], p[2], p[3], p[4], p[5]) :
          AppendNS(p, n)

SpecGen == InitGen /\ [][NextGen]_vars

\* generate_big_summary_table_from_jsonl.main on a given summary: some
\* benchmarks have a recorded result, the others have none.

\* Largest number of benchmarks with a record in the summary.
MaxBenches == 2

\* The benchmarks that may have a record: two without and three with an
\* override.
RecordedBenchmarks == {"a1.ser", "b1.json", "c1.ser", "e2.ser", "g2.ser"}

\* The records of summarize_jsonl_to_csv: result, certificate running
\* time, total running time.
SummaryEntries ==
    {"serializable", "not_serializable", "timeout", "error"}
    \X {"12"} \X {"340", "300000"}

InitTable ==
    /\ InitIdle
    /\ IdleFile
    /\ IdleProofs
    /\ IdlePair
    /\ IdlePool
    /\ IdleMode
    /\ target_size = 0
    /\ yielded = NotYielded
    /\ \E B \in UpTo(RecordedBenchmarks, MaxBenches) :
          bench_summary \in [B -> SummaryEntries]
    /\ tex = NoTable

NextTable == GenerateTable

SpecTable == InitTable /\ [][NextTable]_vars

\* ------------------------------------------------------------ claims

AllProofVerified == \A d \in Disjuncts : ProofVerified(d)

SomeDisproofVerified == \E d \in Disjuncts : DisproofVerified(d)

\* C1: the system-level result is Serializable if and only if every
\* disjunct reached Verified via the proof path; with a disjunct that ended
\* Inconclusive or was verified via the disproof path the result is never
\* Serializable; and check_proofs.analyze_result reads "serializable" from
\* the run's output in exactly those runs.
C1_SerializableIffAllProofVerified ==
    /\ result # "none" => ((result = "Serializable") <=> AllProofVerified)
    /\ (\E d \in Disjuncts :
           dstate[d] = "Inconclusive" \/ DisproofVerified(d))
          => result # "Serializable"
    /\ info # NoInfo =>
          ((info.status = "success" /\ info.result = "serializable")
              <=> AllProofVerified)

\* C1 witness: a run whose two disjuncts are proof-verified, reported
\* Serializable and read so by the harness.
C1_Witness ==
    /\ AllProofVerified
    /\ result = "Serializable"
    /\ info # NoInfo
    /\ info.result = "serializable"

\* C2: the system-level result is NotSerializable if and only if some
\* disjunct reached Verified via the disproof path, also when the remaining
\* disjuncts were skipped; with no such disjunct and not all disjuncts
\* proof-verified the result is Timeout or Error (Unknown); and
\* run_single_analysis reports the same.
C2_NotSerializableIffSomeDisproofVerified ==
    /\ result # "none" =>
          /\ (result = "NotSerializable") <=> SomeDisproofVerified
          /\ (~SomeDisproofVerified /\ ~AllProofVerified)
                => result \in {"Timeout", "Error"}
    /\ rsa # NoRsa =>
          /\ (rsa.original_result = "Not serializable")
                <=> SomeDisproofVerified
          /\ (rsa.status = "[x] Not serializable") <=> SomeDisproofVerified
          /\ (~SomeDisproofVerified /\ ~AllProofVerified)
                => rsa.status \in {"[t] SMPT Timeout", "[!] Error"}

\* C2 witness: the result was reported NotSerializable while another
\* disjunct had not ended (short-circuit), and the harness read it.
C2_Witness ==
    /\ result = "NotSerializable"
    /\ \E d \in Disjuncts : ~Terminal(d)
    /\ rsa # NoRsa
    /\ rsa.status = "[x] Not serializable"

\* The disjuncts whose oracle call timed out.
TimedOut == {d \in Disjuncts : Path(d) = "Timeout" /\ kind[d] = "timeout"}

\* C3: a disjunct whose oracle call timed out is never Verified and no
\* proof or trace line is printed for it; a result reported with a timed-out
\* disjunct is never Serializable; with exactly one timed-out disjunct and
\* every other disjunct proof-verified the result is Timeout and
\* run_single_analysis reports SMPT Timeout.
C3_TimeoutIsInconclusive ==
    /\ \A d \in TimedOut :
          /\ dstate[d] \in {"Timeout", "Inconclusive"}
          /\ out[d] = {}
    /\ (result # "none" /\ TimedOut # {}) => result # "Serializable"
    /\ (result # "none" /\ Cardinality(TimedOut) = 1
          /\ \A d \in Disjuncts \ TimedOut : ProofVerified(d))
          => /\ result = "Timeout"
             /\ rsa # NoRsa =>
                   /\ rsa.status = "[t] SMPT Timeout"
                   /\ rsa.original_result = "SMPT Timeout"
                   /\ rsa.is_timeout = PyTrue

\* C3 witness: one disjunct timed out, the other is proof-verified, the run
\* failed with the oracle's timeout message and the harness read it.
C3_Witness ==
    /\ Cardinality(TimedOut) = 1
    /\ \A d \in Disjuncts \ TimedOut : ProofVerified(d)
    /\ returncode # 0
    /\ rsa # NoRsa

\* The disjuncts whose certificate was re-verified.
CertificateChecked ==
    {d \in Disjuncts : Path(d) = "ProofPath" /\ Terminal(d)}

InvalidProofCategories ==
    {"invalid_proof_invariant_outside_serializable",
     "invalid_proof_initial_state", "invalid_proof_other"}

\* C4: for every disjunct on the proof path whose certificate was
\* re-verified, the lines printed for it read valid (check_proof_validity,
\* analyze_output) exactly when initial_state_ok, inductive_ok and
\* implies_serializable_ok all hold, and read invalid when one of them
\* fails; and a run whose proof check_proofs reads valid has no disjunct
\* with a failed check.
C4_CertificateValidOnlyIfAllChecks ==
    /\ \A d \in CertificateChecked :
          /\ (check_proof_validity(out[d])[1] = PyTrue)
                <=> CertificateValid(plan[d])
          /\ (analyze_output(out[d], {}).category = "ok")
                <=> CertificateValid(plan[d])
          /\ ~CertificateValid(plan[d]) =>
                /\ check_proof_validity(out[d]) = <<PyFalse, "invalid">>
                /\ analyze_output(out[d], {}).category
                      \in InvalidProofCategories
                /\ dstate[d] = "Inconclusive"
    /\ (info # NoInfo /\ info.proof_valid = PyTrue) =>
          \A d \in Disjuncts : CertificateValid(plan[d])

\* C4 witness: a disjunct whose certificate failed exactly the inductiveness
\* check was re-verified, and the harness analysed the run.
C4_Witness ==
    /\ \E d \in CertificateChecked :
          /\ plan[d].initial_state_ok
          /\ ~plan[d].inductive_ok
          /\ plan[d].implies_serializable_ok
    /\ info # NoInfo

\* The disjuncts whose counterexample trace was replayed.
TraceReplayed ==
    {d \in Disjuncts : Path(d) = "DisproofPath" /\ Terminal(d)}

\* C5: for every disjunct on the disproof path whose trace was replayed,
\* the lines printed for it read valid (trace_valid of
\* run_single_analysis) exactly when the replay was a legal firing sequence
\* of the unreduced net and the completed pairs are not serially
\* producible, and read invalid otherwise; the disjunct's verdict is Not
\* serializable only then; and a run whose trace the harness reports valid
\* has a disjunct whose trace passed both checks.
C5_TraceValidOnlyIfReplayAndNonSerial ==
    /\ \A d \in TraceReplayed :
          /\ (trace_validity(out[d]) = PyTrue)
                <=> (plan[d].replay_ok /\ plan[d].nonserial_ok)
          /\ DisproofVerified(d)
                <=> (plan[d].replay_ok /\ plan[d].nonserial_ok)
          /\ ~(plan[d].replay_ok /\ plan[d].nonserial_ok) =>
                /\ trace_validity(out[d]) = PyFalse
                /\ dstate[d] = "Inconclusive"
    /\ (rsa # NoRsa /\ rsa.trace_valid = PyTrue) =>
          /\ result = "NotSerializable"
          /\ \E d \in TraceReplayed :
                plan[d].replay_ok /\ plan[d].nonserial_ok
    /\ (rsa # NoRsa /\ rsa.original_result = "Not serializable") =>
          rsa.trace_valid = PyTrue

\* C5 witness: one disjunct's trace replayed legally but ended in serially
\* producible pairs, another disjunct's trace passed both checks, and the
\* harness analysed the run.
C5_Witness ==
    /\ \E d \in TraceReplayed :
          plan[d].replay_ok /\ ~plan[d].nonserial_ok
    /\ \E d \in TraceReplayed :
          plan[d].replay_ok /\ plan[d].nonserial_ok
    /\ rsa # NoRsa
    /\ rsa.trace_valid = PyTrue

\* The verdict that the per-disjunct outcomes fix, whatever the order of
\* evaluation.
ExpectedResult ==
    IF \E d \in Disjuncts : plan[d].oracle = "TRUE" /\ TraceValid(plan[d])
    THEN "NotSerializable"
    ELSE IF \A d \in Disjuncts :
               plan[d].oracle = "FALSE" /\ CertificateValid(plan[d])
    THEN "Serializable"
    ELSE IF \E d \in Disjuncts :
               \/ plan[d].oracle = "failure"
               \/ plan[d].oracle = "FALSE" /\ ~CertificateValid(plan[d])
               \/ plan[d].oracle = "TRUE" /\ ~TraceValid(plan[d])
    THEN "Error"
    ELSE "Timeout"

\* C7: whatever the order in which the workers evaluate the disjuncts, and
\* also when the evaluation short-circuits, the reported result is the one
\* that the per-disjunct outcomes fix.
C7_VerdictIndependentOfOrder ==
    result # "none" => result = ExpectedResult

\* C7 witness: the result was reported NotSerializable by short-circuit
\* while a disjunct that would have timed out had not been started.
C7_Witness ==
    /\ result = "NotSerializable"
    /\ \E d \in Disjuncts : dstate[d] = "Init" /\ plan[d].oracle = "timeout"

\* The complete walks of one disjunct through the state machine.
Walks ==
    { <<"Init", "Reducing", "BuildingInvariant", "QueryingOracle", x, y>> :
        x \in {"ProofPath", "DisproofPath", "Timeout"},
        y \in {"Verified", "Inconclusive"} }
    \ { <<"Init", "Reducing", "BuildingInvariant", "QueryingOracle",
          "Timeout", "Verified">> }

\* C8: the states a disjunct went through are a prefix of Init, Reducing,
\* BuildingInvariant, QueryingOracle, one of ProofPath / DisproofPath /
\* Timeout, one of Verified / Inconclusive, with Verified never after
\* Timeout; its current state is the last of them.
C8_DisjunctStateMachine ==
    \A d \in Disjuncts :
        /\ \E w \in Walks : trail[d] = SubSeq(w, 1, Len(trail[d]))
        /\ Len(trail[d]) \in 1..6
        /\ dstate[d] = trail[d][Len(trail[d])]

\* C8 witness: one disjunct ended Verified after six states, another ended
\* Inconclusive after Timeout.
C8_Witness ==
    /\ \E d \in Disjuncts : Len(trail[d]) = 6 /\ dstate[d] = "Verified"
    /\ \E d \in Disjuncts :
          Len(trail[d]) = 6 /\ trail[d][5] = "Timeout"
          /\ dstate[d] = "Inconclusive"

\* The multiset of completed pairs and the marking of the current run.
Completed == CompletedPairs(ns, batch, resp)

Marking == MarkingOf(ns, glob, loc)

\* Every multiset of completed pairs that a run of the first candidate of
\* find_minimal_nonser reaches is serial-achievable.
ObserveRunsAreSerial ==
    ns = minimal_candidates[1] =>
        Completed \in SerialAchievable(ns, batch)

\* C9: the two-request observe-intermediate-state system is not
\* serializable: some interleaved execution of the writer and the reader
\* completes with a multiset of (request, response) pairs that no serial
\* execution of the two produces.
C9_ObserveNotSerializable ==
    (ns = minimal_candidates[1] /\ batch = <<"writer", "reader">>) =>
        \E m \in ConcurrentAchievable(ns, batch) :
            m \notin SerialAchievable(ns, batch)

\* No request instance of the run has acted yet.
AtEntry ==
    /\ glob = InitialConfig(ns, batch).glob
    /\ loc = InitialConfig(ns, batch).loc
    /\ resp = InitialConfig(ns, batch).resp

\* C10: a system with zero transitions is serializable (every multiset of
\* completed pairs of its request instances is serial-achievable), its
\* Petri net has no transition, the marking of every reachable state is
\* the initial marking, and the certificate whose invariant is the initial
\* marking alone passes the three checks (the checks depend on the system
\* and its request instances only and are evaluated once per run).
C10_ZeroTransitionsInitialMarking ==
    ns \in ZeroTransitionSystems =>
        /\ PetriNet(ns).transitions = {}
        /\ Marking = InitialMarking(ns, batch)
        /\ Completed \in SerialAchievable(ns, batch)
        /\ AtEntry =>
              /\ SerializableFor(ns, batch)
              /\ initial_state_ok({Marking}, InitialMarking(ns, batch))
              /\ inductive_ok({Marking}, PetriNet(ns))
              /\ implies_serializable_ok({Marking},
                                         NonSerialRegion(ns, batch))

\* C10 witness: in a zero-transition system with two request instances,
\* one has completed with a response while the other has not.
C10_Witness ==
    /\ ns \in ZeroTransitionSystems
    /\ Len(batch) = 2
    /\ resp[1] # "none"
    /\ resp[2] = "none"

\* The whole output of the run, as the scripts read it.
Output == Stdout \cup stderr

\* C11: whenever the original-method result and the proof-based-method
\* result that analyze_examples.run_single_analysis reads from a run differ,
\* its status is the Inconsistent one naming both results, and only then;
\* the script under scripts/ reads both results from the same line, so
\* they never differ there.
C11_DisagreementIsSurfaced ==
    /\ rsa_root # NoRsa =>
          /\ rsa_root.original_result # rsa_root.proof_result =>
                /\ rsa_root.console_status = "Inconsistent"
                /\ rsa_root.status =
                      <<"[!] Inconsistent (orig, proof)",
                        rsa_root.original_result, rsa_root.proof_result>>
          /\ rsa_root.original_result = rsa_root.proof_result =>
                rsa_root.console_status = rsa_root.original_result
    /\ rsa # NoRsa => rsa.original_result = rsa.proof_result

\* C11 witness: the output carries a Serializable original-method line and
\* a CounterExample proof-based line, and the script has analysed it.
C11_Witness ==
    /\ returncode = 0
    /\ LineOrigSer \in Output
    /\ LineProofCex \in Output
    /\ rsa_root # NoRsa

\* The lines that carry a timeout marker of scripts/analyze_examples (resp.
\* of analyze_examples).
TimeoutMarkerLines ==
    {LineSmptTimeout, LineSmptFailedRun, LineAnalysisTimedOut, LineTimeout,
     LineTooLarge}

RootTimeoutMarkerLines ==
    {LineSmptTimeout, LineSmptFailedRun, LineAnalysisTimedOut}

\* C12: a run that exits with a non-zero code is classified SMPT Timeout
\* when its output carries a timeout marker and Error otherwise, by both
\* scripts, whatever verdict lines it printed; so the report of an oracle
\* process failure is classified Error, never a timeout or a verdict.
C12_FailureIsErrorNotTimeout ==
    returncode # 0 =>
        /\ rsa # NoRsa =>
              LET expected == IF Output \cap TimeoutMarkerLines # {}
                              THEN "SMPT Timeout" ELSE "Error"
              IN  /\ rsa.original_result = expected
                  /\ rsa.proof_result = expected
                  /\ rsa.status = IF expected = "Error" THEN "[!] Error"
                                  ELSE "[t] SMPT Timeout"
        /\ rsa_root # NoRsa =>
              LET expected == IF Output \cap RootTimeoutMarkerLines # {}
                              THEN "SMPT Timeout" ELSE "Error"
              IN  /\ rsa_root.original_result = expected
                  /\ rsa_root.proof_result = expected
                  /\ rsa_root.console_status = expected

\* C12 witness: the run printed a verdict line, reported the failure of
\* the oracle process and exited with a non-zero code, and both scripts
\* have analysed it.
C12_Witness ==
    /\ returncode # 0
    /\ LineSer \in sysout
    /\ stderr = {LineError}
    /\ rsa # NoRsa
    /\ rsa_root # NoRsa


\* The wall-clock timeout of the oracle invocation of disjunct d expired.
TimeoutExpired(d) == plan[d].oracle = "timeout" /\ Len(trail[d]) >= 5

\* C13: when the wall-clock timeout of an oracle invocation expires, the
\* oracle process is killed, nothing it printed before the kill (a FALSE or
\* TRUE line included) is used as a verdict (the disjunct takes neither the
\* proof nor the disproof path and prints no certificate or trace line), the
\* disjunct is marked Timeout, and the query was invoked exactly once (no
\* retry); no disjunct ever invokes the oracle twice.
C13_TimeoutKillsDiscardsNoRetry ==
    \A d \in Disjuncts :
        /\ smpt_calls[d] <= 1
        /\ TimeoutExpired(d) =>
              /\ smpt[d] = "killed"
              /\ Path(d) = "Timeout"
              /\ dstate[d] \in {"Timeout", "Inconclusive"}
              /\ kind[d] = "timeout"
              /\ out[d] = {}
              /\ smpt_calls[d] = 1
              /\ smpt_timeouts[d] = 1

C13_Witness ==
    \E d \in Disjuncts :
        /\ TimeoutExpired(d)
        /\ plan[d].printed = "TRUE"
        /\ dstate[d] = "Inconclusive"
        /\ result # "none"

\* The working data and the verdict of one disjunct.
Owned(e) ==
    <<dstate[e], trail[e], kind[e], out[e], smpt[e], smpt_calls[e],
      smpt_timeouts[e], reduced[e], invariant[e]>>

\* Disjunct d is about to raise a failure: its oracle invocation times out
\* or fails, or its certificate or trace does not pass the re-verification.
Raises(d) ==
    \/ dstate[d] = "QueryingOracle" /\ plan[d].oracle \in {"timeout", "failure"}
    \/ dstate[d] = "ProofPath" /\ ~CertificateValid(plan[d])
    \/ dstate[d] = "DisproofPath" /\ ~TraceValid(plan[d])

\* C15: every step taken for one disjunct leaves the reduced net, the
\* invariant and the verdict (state, failure kind, output, oracle counters)
\* of every other disjunct unchanged and leaves the network system and its
\* unreduced Petri net unchanged; a failure raised by the step is recorded
\* against the stepping disjunct.
C15_StepsOfOneDisjunctAreLocal ==
    [][\A d \in Disjuncts : dstate'[d] # dstate[d] =>
          /\ \A e \in Disjuncts \ {d} : Owned(e)' = Owned(e)
          /\ ns' = ns
          /\ PetriNet(ns)' = PetriNet(ns)
          /\ Raises(d) => kind'[d] \in {"timeout", "error"}
          /\ ~Raises(d) => kind'[d] = kind[d]]_vars

C15_Witness ==
    \E d \in Disjuncts : \E e \in Disjuncts \ {d} :
        /\ kind[d] = "error"
        /\ dstate[d] = "Inconclusive"
        /\ kind[e] = "none"
        /\ dstate[e] = "Verified"
        /\ reduced[e] = "reduced"
        /\ invariant[e] = "built"


\* The runs of the determinism harness whose report was saved.
Successful == {i \in DOMAIN reports : reports[i] # Missing}

\* All successful runs fall into one equivalence class: their reports are
\* pairwise equal after normalization.
OneEquivalenceClass ==
    \A i \in Successful : \A j \in Successful :
        normalize_report(reports[i]) = normalize_report(reports[j])

OneGlobalState ==
    \A p \in PetriNet(ns).places : \A q \in PetriNet(ns).places :
        (marking[p] > 0 /\ marking[q] > 0) => p[2] = q[2]

\* C17: the net of the translator simulates the network system exactly:
\* every marking reachable in the net is the token-count encoding of a
\* configuration reachable by a concurrent execution and has all its tokens
\* on places of one global state, and the encoding of every reachable
\* configuration is a marking reachable in the net (checked once per net,
\* at the initial marking).
C17_NetSimulatesNS ==
    /\ OneGlobalState
    /\ marking \in Encodings(ns, batch)
    /\ marking = InitialMarking(ns, batch) =>
          Encodings(ns, batch) \subseteq NetReachable(ns, batch)


\* Nothing that is left is unreachable from the initial marking or unable
\* to reach an observable place.
PruningFixpoint ==
    LET net == pruning.net
        fwd == ForwardPlaces(PetriNet(ns), InitialPlaces(ns, batch))
        bwd == BackwardPlaces(PetriNet(ns), ObservablePlaces(ns))
    IN  /\ net.places \subseteq fwd \cap bwd
        /\ \A t \in net.transitions :
              /\ t.from \in net.places
              /\ t.to \in net.places
        /\ ForwardPass(net, InitialPlaces(ns, batch)) = net
        /\ BackwardPass(net, ObservablePlaces(ns)) = net

\* Every counted iteration but the last removed a place or a transition;
\* the iterations are counted and there are at most as many as the net has
\* places and transitions, plus one; when pruning has stopped, the last
\* iteration removed nothing and the net is a fixpoint of both passes.
PruningProgress ==
    /\ pruning.pruning_iterations = Len(pruning.removed)
    /\ \A i \in 1..(Len(pruning.removed) - 1) : pruning.removed[i] >= 1
    /\ pruning.phase # "done" =>
          \A i \in 1..Len(pruning.removed) : pruning.removed[i] >= 1
    /\ pruning.pruning_iterations <=
          Cardinality(PetriNet(ns).places)
          + Cardinality(PetriNet(ns).transitions) + 1
    /\ pruning.phase = "done" =>
          /\ pruning.removed[Len(pruning.removed)] = 0
          /\ PruningFixpoint

\* C18: bidirectional pruning terminates on every (finite) net; every
\* iteration except the last removes at least one place or transition; when
\* it stops no remaining place or transition is forward-unreachable from the
\* initial marking or unable to reach an observable place.
C18_PruningTerminatesAtFixpoint ==
    /\ []PruningProgress
    /\ <>(pruning.phase = "done")

C18_Witness ==
    /\ pruning.phase = "done"
    /\ pruning.pruning_iterations = 2
    /\ pruning.removed[1] >= 1
    /\ pruning.net.places # {}


\* C20: if the output of a run holds the marker "Proof certificate is
\* INVALID" (resp. "Trace is INVALID!"), no script records the proof (resp.
\* the trace) of the run as valid, whatever else the output holds:
\* scripts/analyze_examples does not set proof_verification (resp.
\* trace_valid) to True, check_proofs does not set proof_valid to True, and
\* genrand counts the run as a verification failure.
C20_InvalidMarkerNeverRecordedValid ==
    /\ rsa # NoRsa =>
          /\ Occurs("Proof certificate is INVALID", Output) =>
                rsa.proof_verification # PyTrue
          /\ Occurs(LineTraceInvalid, Output) => rsa.trace_valid # PyTrue
    /\ (info # NoInfo /\ Occurs("Proof certificate is INVALID", Stdout)) =>
          info.proof_valid # PyTrue
    /\ (result # "none" /\ returncode = 0) =>
          /\ Occurs("Proof certificate is INVALID", Output) =>
                run_serializability_checker(Output, returncode)
                    .verification_failed
          /\ Occurs(LineTraceInvalid, Output) =>
                run_serializability_checker(Output, returncode)
                    .verification_failed


\* The verdict of one run of analyze_file, as run_single_analysis combines
\* it from the two methods.
RunVerdict(run) ==
    analyze_examples_run_single_analysis(run.output, run.rc).console_status

Definite(run) ==
    run.ended /\ RunVerdict(run) \in {"Serializable", "Not serializable"}

\* The run has no verdict because it timed out.
NoVerdictByTimeout(run) ==
    \/ ~run.ended
    \/ /\ ~Definite(run)
       /\ is_smpt_timeout(run.output)

\* C21: whenever the run with optimizations and the run without yield
\* different definite verdicts (one Serializable, the other Not
\* serializable), analyze_file reports the file as Inconsistent and never
\* with one of the two verdicts; and a difference is put down to a timeout
\* (a status with the suffix "timed out", or Both Timed Out) only when one
\* of the two runs has no verdict because it timed out.
C21_DifferentVerdictsAreInconsistent ==
    file_result # NoFile =>
       /\ ( /\ Definite(opt_run)
            /\ Definite(no_opt_run)
            /\ RunVerdict(opt_run) # RunVerdict(no_opt_run) )
          => file_result.status = <<"[!] Inconsistent">>
       /\ ( \/ file_result.status[Len(file_result.status)]
                  \in {" (opt timed out)", " (no-opt timed out)"}
            \/ file_result.status = <<"[t] Both Timed Out">> )
          => ( \/ NoVerdictByTimeout(opt_run)
               \/ NoVerdictByTimeout(no_opt_run) )


\* What the claim asks of a run for the file to be OK.
RunIsSound(run) ==
    /\ run.returncode = 0
    /\ \/ /\ Occurs(LineSerSentence, run.stdout)
          /\ Occurs(LineCertValid, run.stdout)
          /\ Occurs(LineNsInvariants, run.stdout)
          /\ Occurs(LineInitOk, run.stdout)
       \/ /\ Occurs(LineNotSerSentence, run.stdout)
          /\ Occurs(LineNsTrace, run.stdout)
          /\ Occurs(LinePairs, run.stdout)

\* The files that were printed as PROBLEMATIC, in order.
PrintedProblematic ==
    SelectSeq([k \in 1..Len(printed) |-> k],
              LAMBDA k : printed[k] = "PROBLEMATIC")

\* C22: check_proofs prints a file as OK only if the checker exited with
\* code 0 and either the result is serializable with a valid proof
\* certificate, NS-level invariants and a passed initial-state check, or it
\* is not serializable with an NS-level trace and completed pairs; every
\* other file is in problematic_files, and main returns their number.
C22_OkOnlyIfVerified ==
    /\ (printed # <<>> /\ printed[Len(printed)] = "OK")
          => RunIsSound(json_file)
    /\ problematic_files = PrintedProblematic
    /\ exit_status # NotReturned
          => /\ Len(printed) = json_files
             /\ exit_status =
                   Cardinality({k \in 1..Len(printed) : printed[k] # "OK"})

\* Two files were tested, the first found OK with a verified proof, the
\* second problematic, and main returned 1.
C22_Witness ==
    /\ Len(printed) = 2
    /\ printed[1] = "OK"
    /\ printed[2] = "PROBLEMATIC"
    /\ proof_info.status = "success"
    /\ proof_info.result = "serializable"
    /\ proof_info.has_ns_invariants = PyFalse
    /\ exit_status = 1


\* Two reports differ at most in their variable elements: the timestamp of
\* the line "Generated:" and the CPU time of the rows.
SameButVariableElements(report1, report2) ==
    /\ Len(report1) = Len(report2)
    /\ \A k \in DOMAIN report1 :
          CASE report1[k].kind = "Generated:" ->
                  report2[k].kind = "Generated:"
            [] report1[k].kind = "row" ->
                  /\ report2[k].kind = "row"
                  /\ report2[k].a = report1[k].a
                  /\ report2[k].c = report1[k].c
            [] OTHER -> report2[k] = report1[k]

\* C23: compare_reports judges two reports written by run_analysis
\* identical whenever they differ only in the generation timestamp and the
\* CPU times; so two runs with the same per-file results are in the same
\* equivalence class, whenever they ran and however long they took.
C23_ReportsEqualUpToTimeAreIdentical ==
    ( /\ comparison # NotCompared
      /\ SameButVariableElements(report_pair[1], report_pair[2]) )
    => /\ comparison.identical = PyTrue
       /\ comparison.classes = << <<1, 2>> >>


\* C24: for every order in which the jobs complete, the final results list
\* holds exactly one entry per input file, in the order of the sorted list
\* of input files, and so do the rows of the report.
C24_ResultsInInputOrder ==
    pool_report # NoReport =>
       /\ Len(results) = Len(files)
       /\ \A k \in DOMAIN files :
             /\ results[k].index = k - 1
             /\ results[k].filename = stem(files[k])
       /\ Len(pool_report.rows) = Len(files)
       /\ \A k \in DOMAIN files :
             pool_report.rows[k].filename = stem(files[k])

\* The report was written after the job of the second file had completed
\* before the job of the first.
C24_Witness ==
    /\ pool_report # NoReport
    /\ Len(files) = 2
    /\ completed = <<1, 0>>


\* The results that count as Serializable (resp. Not serializable) in the
\* summary and whose verification flag is False.
FlaggedProofs ==
    {k \in DOMAIN results :
        /\ results[k].original_result = "Serializable"
        /\ results[k].proof_result = "Serializable"
        /\ results[k].proof_verification = PyFalse}

FlaggedTraces ==
    {k \in DOMAIN results :
        /\ results[k].original_result = "Not serializable"
        /\ results[k].proof_result = "Not serializable"
        /\ results[k].trace_valid = PyFalse}

\* C29: in the summary written by run_analysis the four status counts
\* partition the results (Serializable + Not serializable + Timeouts +
\* Errors = Total), and the count of invalid proofs (resp. traces) equals
\* the number of files printed as non-validated proofs (resp. traces), that
\* is the number of Serializable (resp. Not serializable) results whose
\* verification flag is False.
C29_SummaryCountsAgree ==
    (script = Scripts /\ pool_report # NoReport) =>
       /\ pool_report.s_cnt + pool_report.ns_cnt + pool_report.to_cnt
             + pool_report.err = pool_report.total
       /\ pool_report.total = Len(files)
       /\ pool_report.ip = Len(pool_report.nv_proofs)
       /\ pool_report.ip = Cardinality(FlaggedProofs)
       /\ pool_report.it = Len(pool_report.nv_traces)
       /\ pool_report.it = Cardinality(FlaggedTraces)


\* C25: the system of generate_minimal_nonser is not serializable: an
\* interleaved execution of two R requests completes a request with the
\* response saw_G1 (evaluated once per run, at its start; the witness is
\* such an execution), and no serial execution from G0 ever completes a
\* request with saw_G1.
C25_MinimalNonserObservesG1 ==
    ns = generate_minimal_nonser =>
       /\ (AtEntry /\ batch = <<"R", "R">>) =>
             \E c \in Reachable(ns, batch, FALSE) :
                 \E i \in DOMAIN batch : c.resp[i] = "saw_G1"
       /\ mode = "serial" =>
             /\ \A i \in DOMAIN batch : resp[i] # "saw_G1"
             /\ Completed \in SerialAchievable(ns, batch)
       /\ (mode = "concurrent" /\ \E i \in DOMAIN batch : resp[i] = "saw_G1")
             => Completed \notin SerialAchievable(ns, batch)

\* Two R requests execute interleaved; the first is at L3 after it has
\* set the global state to G1, the second has completed with saw_G1.
C25_Witness ==
    /\ ns = generate_minimal_nonser
    /\ mode = "concurrent"
    /\ batch = <<"R", "R">>
    /\ loc[1] = "L3"
    /\ glob = "G1"
    /\ resp[2] = "saw_G1"

\* C26: in the write-skew pattern, the interleaved execution of ReqA and
\* ReqB from BothTrue reaches BothFalse (evaluated once per run, at its
\* start), and no serial execution of the same requests reaches BothFalse.
C26_WriteSkewOnlyConcurrent ==
    (ns = generate_write_skew_pattern /\ Range(batch) = {"ReqA", "ReqB"}) =>
       /\ AtEntry =>
             \E c \in Reachable(ns, batch, FALSE) : c.glob = "BothFalse"
       /\ mode = "serial" => glob # "BothFalse"

\* C27: every system that generate_all_ns_of_size(target_size) yields has
\* size exactly target_size (global states plus local states plus requests
\* plus responses plus transitions), and the length of its transitions
\* list is the num_transitions of its parameter tuple.
C27_YieldedHasTargetSize ==
    yielded # NotYielded =>
        /\ compute_size(yielded.params[1], yielded.params[2],
                        Len(yielded.ns.requests), Len(yielded.ns.responses),
                        Len(yielded.ns.transitions)) = target_size
        /\ Len(yielded.ns.transitions) = yielded.params[5]

\* The row of benchmark bm in the table written.
RowOf(bm) ==
    CHOOSE row \in UNION {Range(tex[c]) : c \in DOMAIN tex} : row.bm = bm

TimedOutBenchmarks ==
    {bm \in DOMAIN bench_summary : bench_summary[bm][1] = "timeout"}

\* C28 as stated: in the table written, every benchmark whose recorded
\* result is timeout is shown with the timeout symbol and TIMEOUT timings,
\* and with neither the serializable nor the not-serializable symbol.
C28_TimeoutShownAsTimeout ==
    tex # NoTable =>
        \A bm \in TimedOutBenchmarks :
            /\ RowOf(bm).sym = SYMBOLS["timeout"]
            /\ RowOf(bm).cert_disp = "\\texttt{TIMEOUT}"
            /\ RowOf(bm).total_disp = "\\texttt{TIMEOUT}"
            /\ RowOf(bm).sym \notin
                  {SYMBOLS["serializable"], SYMBOLS["not_serializable"]}

\* C28, amended: every benchmark whose recorded result is timeout is shown
\* with TIMEOUT timings; it is shown with the timeout symbol unless its
\* name is in HARD_SERIALIZABLE, where it is shown with the serializable
\* symbol, or in HARD_NON_SERIALIZABLE, where it is shown with the
\* not-serializable symbol.
C28_TimeoutShownAsTimeoutUnlessHard ==
    tex # NoTable =>
        \A bm \in TimedOutBenchmarks :
            /\ RowOf(bm).cert_disp = "\\texttt{TIMEOUT}"
            /\ RowOf(bm).total_disp = "\\texttt{TIMEOUT}"
            /\ bm \in {"g2.ser"} => RowOf(bm).sym = "\\greencmark"
            /\ bm \in {"c1.ser", "e2.ser"} => RowOf(bm).sym = "\\xmark"
            /\ bm \notin {"g2.ser", "c1.ser", "e2.ser"} =>
                  RowOf(bm).sym = "\\textbf{?}"

\* A table has been written in which a timed-out benchmark with an
\* override and one without are shown.
C28_Witness ==
    /\ tex # NoTable
    /\ \E bm \in TimedOutBenchmarks : bm \in HARD_SERIALIZABLE
    /\ \E bm \in TimedOutBenchmarks :
          bm \notin HARD_SERIALIZABLE \cup HARD_NON_SERIALIZABLE

\* find_proof_issues.main: the ten categories of categories_ordered.
categories_ordered ==
    <<"ok", "invalid_proof_invariant_outside_serializable",
      "invalid_proof_initial_state", "invalid_proof_other",
      "panic_variable_not_found", "panic_other", "proof_parse_error",
      "no_proof_verification", "timeout", "unknown">>

\* C30: for every combination of markers in stdout and stderr,
\* analyze_output assigns one of the ten categories of categories_ordered
\* (never None), and assigns "ok" only when the output carries the
\* "Proof certificate is VALID" marker and neither a timeout nor a panic
\* occurred.
C30_OneOfTenCategories ==
    issue # NoIssue =>
        /\ issue.category \in Range(categories_ordered)
        /\ issue.category = "ok" =>
              /\ Occurs(LineCertValid, Stdout)
              /\ ~Occurs("TIMEOUT", stderr)
              /\ ~Occurs("thread 'main' panicked", stderr)

====
